---- MODULE Spec2Model ----
(***************************************************************************)
(* A model of pyscroll: the quadtree spatial index, the animation token,  *)
(* the data adapter's animation clock and the buffered tile renderer.     *)
(* Each component has its own specification; a specification keeps the    *)
(* variables of the other components at their idle values.                *)
(***************************************************************************)
EXTENDS Integers, Sequences, FiniteSets, TLC

VARIABLES
    qt_items,   \* FastQuadTree: the rectangles handed to the constructor
    qt_depth,   \* FastQuadTree: the depth handed to the constructor
    qt_tree,    \* FastQuadTree: the constructed tree (root node)
    qt_query,   \* the rectangle of the last call when it was hit(), <<>> otherwise
    qt_hits,    \* the set hit() returned
    qt_iter,    \* how often list(tree) held each item, when the last call was
                \*   an iteration; <<>> otherwise
    tok,        \* AnimationToken: frames, loop, ping_pong, speed_multiplier,
                \*   index, direction, done, next
    tok_op,     \* the last call on the token: "new", "advance", "update", "speed"
    tok_arg,    \* current_time of the last advance()/update() call
    tok_ret,    \* position in frames of the frame the last call returned, -1 if none
    tok_raised, \* the last call raised IndexError
    tok_steps,  \* advance() calls made by the last update() call
    tok_pure,   \* the token was driven by update() alone, at times that never
                \*   went back, and the cap was never hit
    tok_jitter, \* random_jitter handed to the constructor; 0 once another call
                \*   has been made on the token
    clk,        \* PyscrollDataAdapter: _last_time, _is_paused, _paused_time,
                \*   _pause_mode_skip_ahead
    clk_now,    \* what time.time() returns
    clk_op,     \* the last call: "new", "update_time", "pause", "resume", "mode"
    clk_at_pause,      \* _last_time when pause_animations() last took effect
    clk_pause_instant, \* time.time() when pause_animations() last took effect
    br,         \* BufferedRenderer: clamp_camera, view_rect, tile_view, x_offset,
                \*   y_offset, anchored_view, half_width, half_height, map_rect,
                \*   size, zoom_level
    br_buffer,  \* the tile buffer: buffer cell -> the pixels drawn there
    br_path,    \* what the last center() did to the buffer: "new", "none",
                \*   "scroll", "redraw"; "set_size", "zoom" or "zoom_error"
                \*   after set_size() and after a zoom assignment
    aq,         \* TiledMapData, the animation side: _animation_queue, the tokens
                \*   made so far and their positions, _animation_map,
                \*   _tracked_gids, _animated_tile
    aq_anims,   \* the animation metadata of the map: gid -> frames property
    aq_op,      \* the last call: "new", "reload", "process", "set_speed", "get_tile_image",
                \* "get_tile_images_by_rect"; "idle" when no adapter is built
    aq_arg,     \* the argument of the last call
    aq_ret,     \* what the last call returned
    aq_raised,  \* the exception the last call raised, "" if none
    aq_hung,    \* the last call is in a loop it never leaves
    aq_log,     \* the last process_animation_queue call, one record per token
                \*   advance
    aq_before,  \* the adapter before the last call
    vp,         \* a ViewPort
    vp_op,      \* the last call: "new", "center", "scroll", "set_size", "zoom"
    vp_coords,  \* the coords of the last center() call, in halves of a pixel
    vp_ret,     \* what the last call returned
    vp_raised,  \* the error the last call raised, "none" when it returned
    tr,         \* TileRenderer and the renderer's own redraw: clear_color, the
                \*   buffer surface having an alpha channel, tile_view, the
                \*   number of calls made
    tr_buffer,  \* the buffer surface: buffer cell -> its pixels
    tr_before,  \* the buffer surface before the last call
    tr_queue,   \* the tile queue the last call built: (x, y, layer, image)
    tr_op,      \* the last call: "new", "queue_edge_tiles", "flush_tile_queue",
                \*   "redraw_all", "redraw_tiles"
    tr_arg,     \* (dx, dy) of the last queue_edge_tiles call
    ds,         \* the sprite pass: the renderables, the offset and the order
                \*   the damage set is walked in
    ds_op,      \* the last call: "new", "_draw_surfaces", "render_sprites"
    ds_list,    \* blit_list after its sort
    ds_paint,   \* the blits in the order they paint the surface
    ma,         \* MapAggregator: _tile_size, _normalize, _map_size, maps (data,
                \*   rect, layer), _min_x, _min_y
    ma_op,      \* the last call: "new", "add_map", "remove_map"
    ma_arg,     \* the data and the offset handed to the last call
    ma_raised,  \* the error the last call raised, "none" when it returned
    ma_calls,   \* the calls made on the aggregator
    tn,         \* the arguments of the last AnimationToken(...) call: frames,
                \*   initial_time, loop, speed_multiplier, ping_pong
    tn_op,      \* "new" once AnimationToken(...) was called, "none" before
    tn_tok,     \* the token the call created, <<>> when it created none
    tn_raised,  \* the error the call raised, "none" when it returned
    tb_view,    \* the view handed to the last get_tile_images_by_rect call
    tb_tiles,   \* the tuples (x, y, layer, image) the call yielded, in order
    tb_op       \* "get_tile_images_by_rect" once it was called, "new" before

qt_vars == <<qt_items, qt_depth, qt_tree, qt_query, qt_hits, qt_iter>>

br_vars == <<br, br_buffer, br_path>>

clk_vars == <<clk, clk_now, clk_op, clk_at_pause, clk_pause_instant>>

tok_vars ==
    <<tok, tok_op, tok_arg, tok_ret, tok_raised, tok_steps, tok_pure, tok_jitter>>

aq_vars == <<aq, aq_anims, aq_op, aq_arg, aq_ret, aq_raised, aq_hung, aq_log, aq_before>>

vp_vars == <<vp, vp_op, vp_coords, vp_ret, vp_raised>>

tr_vars == <<tr, tr_buffer, tr_before, tr_queue, tr_op, tr_arg>>

ds_vars == <<ds, ds_op, ds_list, ds_paint>>

ma_vars == <<ma, ma_op, ma_arg, ma_raised, ma_calls>>

tn_vars == <<tn, tn_op, tn_tok, tn_raised>>

tb_vars == <<tb_view, tb_tiles, tb_op>>

vars ==
    <<qt_vars, tok_vars, clk_vars, br_vars, aq_vars, vp_vars, tr_vars, ds_vars, ma_vars,
      tn_vars, tb_vars>>

(***************************************************************************)
(* Integer helpers                                                         *)
(***************************************************************************)
Abs(n) == IF n < 0 THEN -n ELSE n

Min2(a, b) == IF a < b THEN a ELSE b

Max2(a, b) == IF a > b THEN a ELSE b

\* C integer division by two, truncating toward zero (Rect.centerx, centery)
Half(n) == IF n >= 0 THEN n \div 2 ELSE -((-n) \div 2)

SetMin(S) == CHOOSE m \in S : \A n \in S : m <= n

SetMax(S) == CHOOSE m \in S : \A n \in S : m >= n

(***************************************************************************)
(* pygame.Rect, as far as the quadtree uses it                             *)
(***************************************************************************)
Rect(x, y, w, h) == [x |-> x, y |-> y, w |-> w, h |-> h]

RLeft(r) == r.x

RTop(r) == r.y

RRight(r) == r.x + r.w

RBottom(r) == r.y + r.h

RCenterX(r) == r.x + Half(r.w)

RCenterY(r) == r.y + Half(r.h)

\* Rect.colliderect: zero-sized rectangles collide with nothing, sizes may be
\* negative, touching edges do not overlap
Colliderect(a, b) ==
    /\ a.w /= 0 /\ a.h /= 0 /\ b.w /= 0 /\ b.h /= 0
    /\ Min2(a.x, a.x + a.w) < Max2(b.x, b.x + b.w)
    /\ Min2(a.y, a.y + a.h) < Max2(b.y, b.y + b.h)
    /\ Max2(a.x, a.x + a.w) > Min2(b.x, b.x + b.w)
    /\ Max2(a.y, a.y + a.h) > Min2(b.y, b.y + b.h)

\* rects[0].unionall(rects[1:]) for rectangles of positive size
Unionall(rects) ==
    LET l == SetMin({r.x : r \in rects})
        t == SetMin({r.y : r \in rects})
        rr == SetMax({r.x + r.w : r \in rects})
        b == SetMax({r.y + r.h : r \in rects})
    IN  Rect(l, t, rr - l, b - t)

(***************************************************************************)
(* FastQuadTree                                                            *)
(***************************************************************************)
QTCoordMin == 2

QTCoordMax == 0

QTMaxSize == 2

QTMaxItems == 2

QTMaxDepth == 2

QTCoords == (0 - QTCoordMin)..QTCoordMax

QTRects == {Rect(x, y, w, h) : x \in QTCoords, y \in QTCoords,
                               w \in 1..QTMaxSize, h \in 1..QTMaxSize}

RECURSIVE QTItemSets(_)
QTItemSets(n) ==
    IF n <= 1 THEN {{r} : r \in QTRects}
    ELSE LET P == QTItemSets(n - 1)
         IN  P \cup {s \cup {r} : s \in P, r \in QTRects}

\* the four membership tests of the constructor's partition loop
InNW(r, cx, cy) == RLeft(r) <= cx /\ RTop(r) <= cy

InSW(r, cx, cy) == RLeft(r) <= cx /\ RBottom(r) >= cy

InNE(r, cx, cy) == RRight(r) >= cx /\ RTop(r) <= cy

InSE(r, cx, cy) == RRight(r) >= cx /\ RBottom(r) >= cy

InAllFour(r, cx, cy) ==
    InNW(r, cx, cy) /\ InNE(r, cx, cy) /\ InSE(r, cx, cy) /\ InSW(r, cx, cy)

\* the boundary tuples handed to the four child constructors; Rect(tuple)
\* reads a 4-tuple as (x, y, w, h)
ChildBoundaryNW(b, cx, cy) == Rect(RLeft(b), RTop(b), cx, cy)

ChildBoundaryNE(b, cx, cy) == Rect(cx, RTop(b), RRight(b), cy)

ChildBoundarySE(b, cx, cy) == Rect(cx, cy, RRight(b), RBottom(b))

ChildBoundarySW(b, cx, cy) == Rect(RLeft(b), cy, cx, RBottom(b))

\* FastQuadTree.__init__ with a boundary: a node is a record, an absent child
\* is <<>> and a present one <<node>>
RECURSIVE QTNode(_, _, _)
QTNode(rects, depth, boundary) ==
    LET cx == RCenterX(boundary)
        cy == RCenterY(boundary)
        own == IF depth <= 0 THEN rects
               ELSE {r \in rects : InAllFour(r, cx, cy)}
        rest == rects \ own
        nw_items == {r \in rest : InNW(r, cx, cy)}
        ne_items == {r \in rest : InNE(r, cx, cy)}
        se_items == {r \in rest : InSE(r, cx, cy)}
        sw_items == {r \in rest : InSW(r, cx, cy)}
        Child(its, b) == IF its = {} THEN <<>>
                         ELSE <<QTNode(its, depth - 1, b)>>
    IN  [items |-> own, cx |-> cx, cy |-> cy, boundary |-> boundary,
         nw |-> Child(nw_items, ChildBoundaryNW(boundary, cx, cy)),
         ne |-> Child(ne_items, ChildBoundaryNE(boundary, cx, cy)),
         se |-> Child(se_items, ChildBoundarySE(boundary, cx, cy)),
         sw |-> Child(sw_items, ChildBoundarySW(boundary, cx, cy))]

\* FastQuadTree(items, depth): the boundary defaults to the union of the items
FastQuadTree(items, depth) == QTNode(items, depth, Unionall(items))

\* FastQuadTree.hit
RECURSIVE QTHit(_, _)
QTHit(node, rect) ==
    IF ~Colliderect(node.boundary, rect) THEN {}
    ELSE LET Sub(child, cond) ==
                 IF cond /\ child /= <<>> THEN QTHit(child[1], rect) ELSE {}
         IN  {it \in node.items : Colliderect(it, rect)}
             \cup Sub(node.nw, RLeft(rect) <= node.cx /\ RTop(rect) <= node.cy)
             \cup Sub(node.sw, RLeft(rect) <= node.cx /\ RBottom(rect) >= node.cy)
             \cup Sub(node.ne, RRight(rect) >= node.cx /\ RTop(rect) <= node.cy)
             \cup Sub(node.se, RRight(rect) >= node.cx /\ RBottom(rect) >= node.cy)

\* FastQuadTree.__iter__: the items of the node chained with the iterations
\* of nw, ne, se and sw; how often item is yielded
RECURSIVE QTIterCount(_, _)
QTIterCount(node, item) ==
    LET Sub(child) == IF child = <<>> THEN 0 ELSE QTIterCount(child[1], item)
    IN  (IF item \in node.items THEN 1 ELSE 0)
        + Sub(node.nw) + Sub(node.ne) + Sub(node.se) + Sub(node.sw)

\* the brute-force scan of the tests: every item whose rectangle overlaps q
BruteForceHit(items, q) == {it \in items : Colliderect(it, q)}

(***************************************************************************)
(* AnimationToken.  Times and durations are integers in one unit; the      *)
(* durations are multiples of every combined multiplier, so the division   *)
(* duration / (speed_multiplier * frame_speed_multiplier) is exact.        *)
(***************************************************************************)
TokMaxFrames == 2

TokMaxTime == 5

TokDurations == {0, 2}

TokSpeeds == {1, 2}

TokFrameSpeeds == {0, 1}

\* the random_jitter values a token is constructed with
TokJitters == {0, 1}

\* a frame of duration 0 lasts 0 under every multiplier: one such frame is enough
TokFrame ==
    {f \in [duration : TokDurations, frame_speed_multiplier : TokFrameSpeeds] :
        f.duration = 0 => f.frame_speed_multiplier = 1}

TokFrameSeqs == UNION {[1..n -> TokFrame] : n \in 1..TokMaxFrames}

\* the frames tuple is indexed from 0 in the code and from 1 here
FrameCount(tk) == Len(tk.frames)

\* frames[i]: Python accepts -N..N-1 and raises IndexError otherwise
FrameIndexOk(tk, i) == (0 - FrameCount(tk)) <= i /\ i <= FrameCount(tk) - 1

FramePos(tk, i) == IF i >= 0 THEN i ELSE i + FrameCount(tk)

FrameAt(tk, i) == tk.frames[FramePos(tk, i) + 1]

\* a duration scaled by the token's multiplier alone, the frame's one ignored
EffectiveDurationTokenOnlyMut(frame, speed_multiplier) ==
    IF speed_multiplier <= 0 THEN frame.duration
    ELSE frame.duration \div speed_multiplier

\* duration / combined_multiplier, the duration unscaled when the combined
\* multiplier is <= 0
EffectiveDuration(frame, speed_multiplier) ==
    LET combined_multiplier == speed_multiplier * frame.frame_speed_multiplier
    IN  IF combined_multiplier <= 0 THEN frame.duration
        ELSE frame.duration \div combined_multiplier

\* AnimationToken.__init__ with initial_time and no jitter
NewToken(frames, initial_time, loop, speed_multiplier, ping_pong) ==
    [frames |-> frames, loop |-> loop, ping_pong |-> ping_pong,
     speed_multiplier |-> speed_multiplier,
     index |-> 0, direction |-> 1, done |-> FALSE,
     next |-> EffectiveDuration(frames[1], speed_multiplier) + initial_time]

\* AnimationToken.__init__ with random_jitter: jitter_offset is what
\* random.uniform(0.0, random_jitter) returned, 0 when random_jitter is 0
NewTokenJitter(frames, initial_time, loop, speed_multiplier, ping_pong, jitter_offset) ==
    [NewToken(frames, initial_time, loop, speed_multiplier, ping_pong)
        EXCEPT !.next = @ + jitter_offset]

\* the arguments AnimationToken(...) is called with
TNFrameSeqs == TokFrameSeqs \cup {<<>>}

TNSpeeds == TokSpeeds \cup {-1, 0}

\* a constructor that takes any speed_multiplier
AnimationTokenAnySpeedMut(frames, initial_time, loop, speed_multiplier, ping_pong) ==
    IF frames = <<>>
    THEN [tok |-> <<>>, raised |-> "ValueError"]
    ELSE [tok |-> NewToken(frames, initial_time, loop, speed_multiplier, ping_pong),
          raised |-> "none"]

\* AnimationToken(positions, frames, initial_time, loop, speed_multiplier,
\* ping_pong): the token created and the error raised
AnimationToken(frames, initial_time, loop, speed_multiplier, ping_pong) ==
    IF frames = <<>> \/ speed_multiplier <= 0
    THEN [tok |-> <<>>, raised |-> "ValueError"]
    ELSE [tok |-> NewToken(frames, initial_time, loop, speed_multiplier, ping_pong),
          raised |-> "none"]

\* a ping-pong step that wraps at the ends instead of reversing
PingPongWrapMut(tk) ==
    LET n == FrameCount(tk)
        i2 == IF tk.index = n - 1 THEN 0 ELSE tk.index + 1
    IN  [tk EXCEPT !.index = i2,
                   !.done = (~tk.loop /\ i2 = 0)]

\* advance(), ping_pong branch: the token after the index, direction and done
\* assignments; done set means the method returned early
PingPongMove(tk) ==
    LET n == FrameCount(tk)
        is_at_end == tk.index = n - 1 /\ tk.direction = 1
        is_at_start == tk.index = 0 /\ tk.direction = -1
    IN  IF ~is_at_end /\ is_at_start /\ ~tk.loop
        THEN [tk EXCEPT !.done = TRUE]
        ELSE LET d2 == IF is_at_end THEN -1
                       ELSE IF is_at_start THEN 1 ELSE tk.direction
                 i2 == tk.index + d2
             IN  [tk EXCEPT !.direction = d2, !.index = i2,
                            !.done = (~tk.loop /\ i2 = 0 /\ d2 = -1)]

\* a linear step that never wraps: the index runs past the last frame
LinearNoWrapMut(tk) ==
    IF tk.index = FrameCount(tk) - 1 /\ ~tk.loop
    THEN [tk EXCEPT !.done = TRUE]
    ELSE [tk EXCEPT !.index = tk.index + 1]

\* advance(), the branch without ping_pong
LinearMove(tk) ==
    IF tk.index = FrameCount(tk) - 1
    THEN IF tk.loop THEN [tk EXCEPT !.index = 0]
         ELSE [tk EXCEPT !.done = TRUE]
    ELSE [tk EXCEPT !.index = tk.index + 1]

\* advance() past its done check: move, then look up the new frame and
\* reschedule from current_time
AdvanceLive(tk, current_time) ==
    LET m == IF tk.ping_pong THEN PingPongMove(tk) ELSE LinearMove(tk)
    IN  IF ~FrameIndexOk(m, m.index)
        THEN [tok |-> m, ret |-> -1, raised |-> TRUE]
        ELSE IF m.done
        THEN [tok |-> m, ret |-> FramePos(m, m.index), raised |-> FALSE]
        ELSE [tok |-> [m EXCEPT !.next =
                          EffectiveDuration(FrameAt(m, m.index),
                                            m.speed_multiplier) + current_time],
              ret |-> FramePos(m, m.index), raised |-> FALSE]

\* an advance() that reschedules a finished token instead of returning early
AdvanceDoneReschedulesMut(tk, current_time) ==
    IF tk.done
    THEN [tok |-> [tk EXCEPT !.next =
                      EffectiveDuration(FrameAt(tk, tk.index),
                                        tk.speed_multiplier) + current_time],
          ret |-> FramePos(tk, tk.index), raised |-> FALSE]
    ELSE AdvanceLive(tk, current_time)

\* AnimationToken.advance
Advance(tk, current_time) ==
    IF tk.done
    THEN IF FrameIndexOk(tk, tk.index)
         THEN [tok |-> tk, ret |-> FramePos(tk, tk.index), raised |-> FALSE]
         ELSE [tok |-> tk, ret |-> -1, raised |-> TRUE]
    ELSE AdvanceLive(tk, current_time)

\* the while loop of update(): steps counts the advance() calls made so far
RECURSIVE UpdateLoop(_, _, _)
UpdateLoop(tk, current_time, safety_counter) ==
    IF ~(current_time >= tk.next)
    THEN [tok |-> tk, steps |-> safety_counter, raised |-> FALSE]
    ELSE LET a == Advance(tk, tk.next)
             max_steps == FrameCount(tk) * 4
         IN  IF a.raised
             THEN [tok |-> a.tok, steps |-> safety_counter + 1, raised |-> TRUE]
             ELSE IF safety_counter + 1 > max_steps
             THEN [tok |-> a.tok, steps |-> safety_counter + 1, raised |-> FALSE]
             ELSE UpdateLoop(a.tok, current_time, safety_counter + 1)

\* AnimationToken.update
Update(tk, current_time) ==
    IF tk.done
    THEN [tok |-> tk, steps |-> 0, raised |-> ~FrameIndexOk(tk, tk.index)]
    ELSE LET u == UpdateLoop(tk, current_time, 0)
         IN  [tok |-> u.tok, steps |-> u.steps,
              raised |-> u.raised \/ ~FrameIndexOk(u.tok, u.tok.index)]

(***************************************************************************)
(* PyscrollDataAdapter: the animation clock.  Times are integers; the      *)
(* wall clock starts above 0, as time.time() does.                         *)
(***************************************************************************)
ClkMaxTime == 5

\* the adapter right after PyscrollDataAdapter.__init__
NewClock ==
    [last_time |-> 0, is_paused |-> FALSE, paused_time |-> 0,
     pause_mode_skip_ahead |-> FALSE]

\* PyscrollDataAdapter._update_time, time.time() returning now
UpdateTime(c, now) ==
    IF c.is_paused THEN c
    ELSE IF c.pause_mode_skip_ahead /\ c.paused_time > 0
         THEN [c EXCEPT !.last_time = c.last_time + (now - c.paused_time),
                        !.paused_time = 0]
         ELSE [c EXCEPT !.last_time = now]

\* PyscrollDataAdapter.pause_animations, on an adapter that is not paused
PauseAnimations(c, now) ==
    [c EXCEPT !.is_paused = TRUE, !.paused_time = now]

\* PyscrollDataAdapter.resume_animations, on a paused adapter
ResumeAnimations(c, now) ==
    UpdateTime([c EXCEPT !.is_paused = FALSE, !.paused_time = 0], now)

(***************************************************************************)
(* BufferedRenderer over a PyscrollDataAdapter.  A tile image is named by  *)
(* the map cell and layer it belongs to.  The pixels of a buffer cell are  *)
(* the sequence of images that show through: an opaque image covers what   *)
(* was drawn before it, a semi-transparent image blends over it.           *)
(***************************************************************************)
BRTileW == 2

BRTileH == 2

BRMapW == 5

BRMapH == 4

BRViewW == 3

BRViewH == 3

BRMargin == 1

BRRedrawCutoff == 1

\* data.visible_tile_layers
BRLayers == <<0, 1>>

\* data.is_on_map
IsOnMap(x, y) == 0 <= x /\ x < BRMapW /\ 0 <= y /\ y < BRMapH

\* the map: 0 for no tile, 1 for an opaque image, 2 for a semi-transparent one
MapGid(x, y, l) ==
    IF ~IsOnMap(x, y) THEN 0
    ELSE IF l = 0 THEN (IF (x + y) % 3 = 0 THEN 0 ELSE 1)
    ELSE (IF x % 2 = 0 THEN 2 ELSE 0)

\* data.get_tile_image(x, y, l) with no animation substituted: <<>> for None
GetTileImage(x, y, l) ==
    IF MapGid(x, y, l) = 0 THEN <<>> ELSE <<x, y, l>>

IsOpaque(image) == MapGid(image[1], image[2], image[3]) = 1

\* Surface.blit of one tile image on the pixels of a buffer cell
Blit(pixels, image) ==
    IF IsOpaque(image) THEN <<image>> ELSE Append(pixels, image)

\* Python's round() on a coordinate given in halves: ties go to the even integer
PyRound(halves) ==
    IF halves % 2 = 0 THEN halves \div 2
    ELSE LET f == (halves - 1) \div 2
         IN  IF f % 2 = 0 THEN f ELSE f + 1

\* Rect.center = (cx, cy)
SetCenter(r, cx, cy) == Rect(cx - r.w \div 2, cy - r.h \div 2, r.w, r.h)

\* a clamp that brings a rectangle back from before the start of the other
\* and lets it run past the end
ClampAxisNoEndMut(pos, size, mpos, msize) ==
    IF size >= msize THEN mpos + msize \div 2 - size \div 2
    ELSE IF pos < mpos THEN mpos
    ELSE pos

\* Rect.clamp_ip on one axis: a rectangle too large for the other is centred
ClampAxis(pos, size, mpos, msize) ==
    IF size >= msize THEN mpos + msize \div 2 - size \div 2
    ELSE IF pos < mpos THEN mpos
    ELSE IF pos + size > mpos + msize THEN mpos + msize - size
    ELSE pos

ClampIp(r, m) ==
    Rect(ClampAxis(r.x, r.w, m.x, m.w), ClampAxis(r.y, r.h, m.y, m.h), r.w, r.h)

\* math.ceil(a / b) for a >= 0, b > 0
CeilDiv(a, b) == (a + b - 1) \div b

\* rect_to_bb
RectToBB(rect) ==
    [x1 |-> rect.x, y1 |-> rect.y,
     x2 |-> rect.x + rect.w - 1, y2 |-> rect.y + rect.h - 1]

InBB(bb, x, y) == bb.x1 <= x /\ x <= bb.x2 /\ bb.y1 <= y /\ y <= bb.y2

BufferCells(tile_view) == (0..(tile_view.w - 1)) \X (0..(tile_view.h - 1))

\* the tiles get_tile_images_by_rect(view) yields for map cell (x, y), drawn
\* over pixels in the order they are yielded: layer by layer
RECURSIVE BlitLayers(_, _, _, _)
BlitLayers(pixels, x, y, i) ==
    IF i > Len(BRLayers) THEN pixels
    ELSE LET tile == GetTileImage(x, y, BRLayers[i])
         IN  BlitLayers(IF tile = <<>> THEN pixels ELSE Blit(pixels, tile),
                        x, y, i + 1)

\* _flush_tile_queue with the queue chained from get_tile_images_by_rect over
\* each rectangle of views in turn: a tile (x, y) is drawn at the buffer cell
\* (x - tile_view.left, y - tile_view.top); blits on other cells do not touch
\* a cell, so each cell is followed on its own
RECURSIVE FlushCell(_, _, _, _, _)
FlushCell(pixels, x, y, views, i) ==
    IF i > Len(views) THEN pixels
    ELSE FlushCell(IF InBB(RectToBB(views[i]), x, y)
                   THEN BlitLayers(pixels, x, y, 1) ELSE pixels,
                   x, y, views, i + 1)

FlushTileQueue(buffer, tile_view, views) ==
    [c \in BufferCells(tile_view) |->
        FlushCell(buffer[c], c[1] + tile_view.x, c[2] + tile_view.y, views, 1)]

\* _clear_surface(buffer, area) for an area given in tiles of the map
ClearTiles(buffer, tile_view, views) ==
    [c \in BufferCells(tile_view) |->
        IF \E i \in 1..Len(views) :
               InBB(RectToBB(views[i]), c[1] + tile_view.x, c[2] + tile_view.y)
        THEN <<>> ELSE buffer[c]]

\* redraw_tiles: clear the whole buffer, then draw every tile of tile_view
RedrawTiles(tile_view) ==
    FlushTileQueue([c \in BufferCells(tile_view) |-> <<>>], tile_view,
                   <<tile_view>>)

\* a scroll that moves nothing
ScrollBufferKeepMut(buffer, tile_view, dx, dy) == buffer

\* Surface.scroll(-dx * tw, -dy * th): the content moves by (-dx, -dy) cells,
\* the cells nothing moves into keep their pixels
ScrollBuffer(buffer, tile_view, dx, dy) ==
    [c \in BufferCells(tile_view) |->
        IF <<c[1] + dx, c[2] + dy>> \in BufferCells(tile_view)
        THEN buffer[<<c[1] + dx, c[2] + dy>>] ELSE buffer[c]]

\* _queue_edge_tiles: the rectangles appended, in order, v the moved tile_view
EdgeViews(v, dx, dy) ==
    (IF dx > 0 THEN <<Rect(RRight(v) - 1, v.y, dx, v.h)>>
     ELSE IF dx < 0 THEN <<Rect(v.x, v.y, 0 - dx, v.h)>>
     ELSE <<>>)
    \o
    (IF dy > 0 THEN <<Rect(v.x, RBottom(v) - 1, v.w, dy)>>
     ELSE IF dy < 0 THEN <<Rect(v.x, v.y, v.w, 0 - dy)>>
     ELSE <<>>)

\* _initialize_buffers(view_size) on a new renderer, followed by nothing else:
\* the state BufferedRenderer.__init__ leaves
NewRenderer(clamp_camera) ==
    [clamp_camera |-> clamp_camera,
     map_rect |-> Rect(0, 0, BRMapW * BRTileW, BRMapH * BRTileH),
     view_rect |-> Rect(0, 0, BRViewW, BRViewH),
     tile_view |-> Rect(0, 0, CeilDiv(BRViewW, BRTileW) + 1,
                              CeilDiv(BRViewH, BRTileH) + 1),
     half_width |-> BRViewW \div 2,
     half_height |-> BRViewH \div 2,
     x_offset |-> 0, y_offset |-> 0, anchored_view |-> TRUE,
     size |-> <<BRViewW, BRViewH>>, zoom_level |-> <<1, 1>>]

\* the screen sizes set_size() is given and the zoom levels assigned, a zoom
\* level a pair <<n, d>> standing for n / d
BRSizes == {<<BRViewW, BRViewH>>, <<2 * BRViewW, 2 * BRViewH - 1>>}

BRZooms == {<<0, 1>>, <<1, 1>>, <<2, 1>>}

\* _calculate_zoom_buffer_size for value > 0: int(size * (1.0 / value))
CalculateZoomBufferSize(size, value) ==
    <<(size[1] * value[2]) \div value[1], (size[2] * value[2]) \div value[1]>>

\* _initialize_buffers(view_size): the renderer and its buffer
InitializeBuffers(r, view_size) ==
    LET tile_view == Rect(0, 0, CeilDiv(view_size[1], BRTileW) + 1,
                                CeilDiv(view_size[2], BRTileH) + 1)
    IN  [r |-> [r EXCEPT
                  !.map_rect = Rect(0, 0, BRMapW * BRTileW, BRMapH * BRTileH),
                  !.view_rect = Rect(@.x, @.y, view_size[1], view_size[2]),
                  !.tile_view = tile_view,
                  !.half_width = view_size[1] \div 2,
                  !.half_height = view_size[2] \div 2,
                  !.x_offset = 0, !.y_offset = 0],
         buffer |-> RedrawTiles(tile_view)]

\* BufferedRenderer.set_size(size)
SetSize(r, size) ==
    InitializeBuffers([r EXCEPT !.size = size],
                      CalculateZoomBufferSize(size, r.zoom_level))

\* the zoom setter of BufferedRenderer, value > 0
SetZoom(r, value) ==
    InitializeBuffers([r EXCEPT !.zoom_level = value],
                      CalculateZoomBufferSize(r.size, value))

\* an offset moved by the tile difference taken as pixels
UnclampedAxisPixelShiftMut(origin, offset, pos, view_tiles, map_tiles, old_origin, tile) ==
    LET d == origin - old_origin
    IN  IF map_tiles < view_tiles \/ origin < 0
        THEN [origin |-> 0, offset |-> pos, anchored |-> FALSE]
        ELSE IF origin + view_tiles > map_tiles
        THEN [origin |-> map_tiles - view_tiles, offset |-> offset + d,
              anchored |-> FALSE]
        ELSE [origin |-> origin, offset |-> offset, anchored |-> TRUE]

\* center(), one axis with clamp_camera off: the tile origin, the offset and
\* whether the axis stays anchored
UnclampedAxis(origin, offset, pos, view_tiles, map_tiles, old_origin, tile) ==
    LET d == origin - old_origin
    IN  IF map_tiles < view_tiles \/ origin < 0
        THEN [origin |-> 0, offset |-> pos, anchored |-> FALSE]
        ELSE IF origin + view_tiles > map_tiles
        THEN [origin |-> map_tiles - view_tiles, offset |-> offset + d * tile,
              anchored |-> FALSE]
        ELSE [origin |-> origin, offset |-> offset, anchored |-> TRUE]

\* BufferedRenderer.center(coords), coords in halves of a pixel
Center(r, buffer, cx2, cy2) ==
    LET x0 == PyRound(cx2)
        y0 == PyRound(cy2)
        vr0 == SetCenter(r.view_rect, x0, y0)
        vr == IF r.clamp_camera THEN ClampIp(vr0, r.map_rect) ELSE vr0
        x == IF r.clamp_camera THEN RCenterX(vr) ELSE x0
        y == IF r.clamp_camera THEN RCenterY(vr) ELSE y0
        left0 == (x - r.half_width) \div BRTileW
        xo0 == (x - r.half_width) % BRTileW
        top0 == (y - r.half_height) \div BRTileH
        yo0 == (y - r.half_height) % BRTileH
        ax == IF r.clamp_camera
              THEN [origin |-> left0, offset |-> xo0, anchored |-> TRUE]
              ELSE UnclampedAxis(left0, xo0, x - r.half_width, r.tile_view.w,
                                 BRMapW, r.tile_view.x, BRTileW)
        ay == IF r.clamp_camera
              THEN [origin |-> top0, offset |-> yo0, anchored |-> TRUE]
              ELSE UnclampedAxis(top0, yo0, y - r.half_height, r.tile_view.h,
                                 BRMapH, r.tile_view.y, BRTileH)
        dx == ax.origin - r.tile_view.x
        dy == ay.origin - r.tile_view.y
        view_change == Max2(Abs(dx), Abs(dy))
        moved == Rect(r.tile_view.x + dx, r.tile_view.y + dy,
                      r.tile_view.w, r.tile_view.h)
        r2 == [r EXCEPT !.view_rect = vr,
                        !.x_offset = ax.offset, !.y_offset = ay.offset,
                        !.anchored_view = ax.anchored /\ ay.anchored]
    IN  IF view_change /= 0 /\ view_change <= BRRedrawCutoff
        THEN [r |-> [r2 EXCEPT !.tile_view = moved],
              buffer |-> FlushTileQueue(
                             ClearTiles(ScrollBuffer(buffer, r.tile_view, dx, dy),
                                        moved, EdgeViews(moved, dx, dy)),
                             moved, EdgeViews(moved, dx, dy)),
              path |-> "scroll"]
        ELSE IF view_change > BRRedrawCutoff
        THEN [r |-> [r2 EXCEPT !.tile_view = moved],
              buffer |-> RedrawTiles(moved),
              path |-> "redraw"]
        ELSE [r |-> r2, buffer |-> buffer, path |-> "none"]

(***************************************************************************)
(* TiledMapData, the animation side of the data adapter: the animation     *)
(* queue (a heapq list of tokens), the token of every animated gid, the    *)
(* positions each token tracks and the substituted tile images.  A token   *)
(* is named by the order of its creation, an image by the gid it belongs   *)
(* to, 0 standing for None.                                                *)
(***************************************************************************)
\* tmx.layers[l].data[y][x], layer 0 first: the gid of every cell, 0 for none
AQLayerData == << << <<1>> >>, << <<2>> >>, << <<0>> >> >>

\* data.visible_tile_layers
AQLayers == <<0, 1, 2>>

\* tmx.images, indexed from gid 0: gids 1 and 2 have an image, 0 and 3 have none
AQImages == <<0, 1, 2, 0>>

\* the gids that can carry a "frames" property
AQGids == {1, 2}

\* the frame durations (ms) the metadata can name
AQFrameMs == {0, 2000}

\* frames properties that name a gid without an image (3) or a gid past the
\* end of tmx.images (4)
AQFrameDataMissing ==
    {<< <<3, 2000>>, <<2, 2000>> >>, << <<3, 2000>> >>, << <<4, 2000>> >>}

\* the frames property of gid 1: two frames with images, or one of the above
AQFrameData ==
    {<< <<1, d>>, <<2, e>> >> : d \in AQFrameMs, e \in AQFrameMs}
    \cup AQFrameDataMissing

\* the frames property of gid 2, when it has one
AQFrameDataSecond == {<<>>, << <<2, 2000>>, <<1, 2000>> >>}

AQAnimations ==
    {<<first, second>> : first \in AQFrameData, second \in AQFrameDataSecond}

\* the tokens one adapter makes, over all its reloads
AQMaxTokens == 2

\* the instants time.time() returns
AQInstants == {1, 3}

AQSpeeds == {0, 2}

AQPositions ==
    {<<x, y, AQLayers[i]>> : x \in 0..(Len(AQLayerData[1][1]) - 1),
                             y \in 0..(Len(AQLayerData[1]) - 1),
                             i \in 1..Len(AQLayers)}

\* the tile views, in tiles: on the cell of the map, beside it
AQViews == {Rect(0, 0, 1, 1), Rect(1, 0, 1, 1)}

\* the rectangles get_tile_images_by_rect is asked for
AQQueryRects == {Rect(0, 0, 1, 1)}

\* TiledMapData._get_tile_gid: -1 for None
AQTileGid(x, y, l) ==
    IF <<x, y, l>> \in AQPositions THEN AQLayerData[l + 1][y + 1][x + 1] ELSE -1

\* the cells that hold a tile
AQTiles == {p \in AQPositions : AQTileGid(p[1], p[2], p[3]) > 0}

\* TiledMapData._get_tile_image_by_id: tmx.images[id], -1 for IndexError
AQTileImageById(id) ==
    IF 0 <= id /\ id < Len(AQImages) THEN AQImages[id + 1] ELSE -1

\* TiledMapData._get_tile_image: the image of the cell's gid, 0 for None
AQTileImage(x, y, l) ==
    IF AQTileGid(x, y, l) <= 0 THEN 0 ELSE AQTileImageById(AQTileGid(x, y, l))

\* AnimationToken.__lt__ between the tokens a and b of tokens
TokenLt(tokens, a, b) == tokens[a].next < tokens[b].next

\* heapq._siftdown(heap, startpos, pos), positions counted from 0
RECURSIVE SiftDownLoop(_, _, _, _, _)
SiftDownLoop(heap, tokens, newitem, startpos, pos) ==
    IF pos > startpos /\ TokenLt(tokens, newitem, heap[(pos - 1) \div 2 + 1])
    THEN SiftDownLoop([heap EXCEPT ![pos + 1] = heap[(pos - 1) \div 2 + 1]],
                      tokens, newitem, startpos, (pos - 1) \div 2)
    ELSE [heap EXCEPT ![pos + 1] = newitem]

SiftDown(heap, tokens, startpos, pos) ==
    SiftDownLoop(heap, tokens, heap[pos + 1], startpos, pos)

\* heapq._siftup(heap, pos): the smaller child is moved up until a leaf is
\* reached, then the item is sifted down from there
RECURSIVE SiftUpLoop(_, _, _, _, _)
SiftUpLoop(heap, tokens, newitem, startpos, pos) ==
    LET endpos == Len(heap)
        childpos == 2 * pos + 1
        rightpos == childpos + 1
        smaller == IF rightpos < endpos
                      /\ ~TokenLt(tokens, heap[childpos + 1], heap[rightpos + 1])
                   THEN rightpos ELSE childpos
    IN  IF childpos < endpos
        THEN SiftUpLoop([heap EXCEPT ![pos + 1] = heap[smaller + 1]],
                        tokens, newitem, startpos, smaller)
        ELSE SiftDown([heap EXCEPT ![pos + 1] = newitem], tokens, startpos, pos)

SiftUp(heap, tokens, pos) == SiftUpLoop(heap, tokens, heap[pos + 1], pos, pos)

\* a push that appends and leaves the list as it is
HeapPushAppendMut(heap, tokens, item) == Append(heap, item)

\* heapq.heappush
HeapPush(heap, tokens, item) ==
    SiftDown(Append(heap, item), tokens, 0, Len(heap))

\* heapq.heappop on a heap that is not empty
HeapPop(heap, tokens) ==
    LET lastelt == heap[Len(heap)]
        rest == SubSeq(heap, 1, Len(heap) - 1)
    IN  IF rest = <<>> THEN [item |-> lastelt, heap |-> rest]
        ELSE [item |-> rest[1],
              heap |-> SiftUp([rest EXCEPT ![1] = lastelt], tokens, 0)]

\* PyscrollDataAdapter.__init__: nothing loaded
NewAdapter ==
    [queue |-> <<>>, tokens |-> <<>>, positions |-> <<>>,
     animation_map |-> [g \in AQGids |-> 0], tracked_gids |-> {},
     animated_tile |-> [p \in AQPositions |-> 0]]

\* reload_animations, the frames of one animation: the frames whose gid has
\* an image, durations converted from ms
RECURSIVE LoadFrames(_, _)
LoadFrames(frame_data, i) ==
    IF i > Len(frame_data) THEN <<>>
    ELSE LET image == AQTileImageById(frame_data[i][1])
             rest == LoadFrames(frame_data, i + 1)
         IN  IF image > 0
             THEN <<[image |-> image, duration |-> frame_data[i][2] \div 1000,
                     frame_speed_multiplier |-> 1]>> \o rest
             ELSE rest

\* reload_animations, the loop over get_animations(): gids is what is left
\* to load
RECURSIVE ReloadLoop(_, _, _, _)
ReloadLoop(a, anims, gids, last_time) ==
    IF gids = <<>> THEN [a |-> a, raised |-> ""]
    ELSE LET gid == Head(gids)
             frame_data == anims[gid]
             tracked == [a EXCEPT !.tracked_gids = @ \cup {gid}]
             frames == LoadFrames(frame_data, 1)
             ani == Len(a.tokens) + 1
             tokens == Append(a.tokens, NewToken(frames, last_time, TRUE, 1, FALSE))
         IN  IF frame_data = <<>>
             THEN ReloadLoop(a, anims, Tail(gids), last_time)
             ELSE IF \E i \in 1..Len(frame_data) :
                         AQTileImageById(frame_data[i][1]) = -1
             THEN [a |-> tracked, raised |-> "IndexError"]
             ELSE IF frames = <<>>
             THEN [a |-> tracked, raised |-> "ValueError"]
             ELSE ReloadLoop(
                      [tracked EXCEPT
                          !.tokens = tokens,
                          !.positions = Append(@, {}),
                          !.animation_map = [@ EXCEPT ![gid] = ani],
                          !.queue = HeapPush(@, tokens, ani)],
                      anims, Tail(gids), last_time)

\* the gids get_animations() yields, in the order of tmx.tile_properties
AQGidOrder == <<1, 2>>

\* PyscrollDataAdapter.reload_animations after its _update_time()
ReloadAnimations(a, anims, last_time) ==
    ReloadLoop([a EXCEPT !.tracked_gids = {},
                         !.animation_map = [g \in AQGids |-> 0]],
               anims, AQGidOrder, last_time)

\* PyscrollDataAdapter.get_tile_image: the adapter after the call and the
\* image returned, 0 for None
AQGetTileImage(a, x, y, l) ==
    LET position == <<x, y, l>>
        gid == AQTileGid(x, y, l)
    IN  IF position \in AQPositions /\ a.animated_tile[position] /= 0
        THEN [a |-> a, image |-> a.animated_tile[position]]
        ELSE IF (\E g \in AQGids : a.animation_map[g] /= 0)
                /\ gid \in AQGids /\ a.animation_map[gid] /= 0
        THEN LET token == a.animation_map[gid]
                 image == a.tokens[token].frames[1].image
             IN  [a |-> [a EXCEPT !.positions[token] = @ \cup {position},
                                  !.animated_tile[position] = image],
                  image |-> image]
        ELSE [a |-> a, image |-> AQTileImage(x, y, l)]

\* Rect.collidepoint
Collidepoint(r, x, y) ==
    /\ RLeft(r) <= x /\ x < RRight(r)
    /\ RTop(r) <= y /\ y < RBottom(r)

\* a redraw of the animated layer alone
ColumnLoopOneLayerMut(a, position, image, i, entries) ==
    [a |-> a,
     entries |-> <<<<position[1], position[2], position[3], image>>>>]

\* process_animation_queue, the loop over tile_layers for one tracked position
\* on the buffer: the adapter and the entries appended to new_tiles
RECURSIVE ColumnLoop(_, _, _, _, _)
ColumnLoop(a, position, image, i, entries) ==
    IF i > Len(AQLayers) THEN [a |-> a, entries |-> entries]
    ELSE LET layer == AQLayers[i]
             other == AQGetTileImage(a, position[1], position[2], layer)
         IN  IF layer = position[3]
             THEN ColumnLoop(a, position, image, i + 1,
                             Append(entries, <<position[1], position[2], layer, image>>))
             ELSE ColumnLoop(other.a, position, image, i + 1,
                             IF other.image /= 0
                             THEN Append(entries, <<position[1], position[2], layer,
                                                    other.image>>)
                             ELSE entries)

\* process_animation_queue, the loop over token.positions.copy(): todo is
\* what is left of the copy.  A gid fills one cell of this map, so a token
\* tracks one position at most and the order of the walk does not matter.
RECURSIVE PositionsLoop(_, _, _, _, _, _)
PositionsLoop(a, token, todo, image, tile_view, emitted) ==
    IF todo = {} THEN [a |-> a, emitted |-> emitted]
    ELSE LET position == CHOOSE p \in todo : TRUE
             column == ColumnLoop([a EXCEPT !.animated_tile[position] = image],
                                  position, image, 1, <<>>)
         IN  IF Collidepoint(tile_view, position[1], position[2])
             THEN PositionsLoop(column.a, token, todo \ {position}, image, tile_view,
                                [emitted EXCEPT ![position] = column.entries])
             ELSE PositionsLoop([a EXCEPT !.positions[token] = @ \ {position}],
                                token, todo \ {position}, image, tile_view, emitted)

\* process_animation_queue, one pass of the while loop: pop, advance, push,
\* then the tracked positions
ProcessStep(a, last_time, tile_view) ==
    LET popped == HeapPop(a.queue, a.tokens)
        token == popped.item
        advanced == Advance(a.tokens[token], last_time)
        tokens == [a.tokens EXCEPT ![token] = advanced.tok]
        image == advanced.tok.frames[advanced.ret + 1].image
        pushed == [a EXCEPT !.tokens = tokens,
                            !.queue = HeapPush(popped.heap, tokens, token)]
        walked == PositionsLoop(pushed, token, a.positions[token], image, tile_view,
                                [p \in AQPositions |-> <<>>])
    IN  [a |-> walked.a,
         rec |-> [token |-> token, image |-> image, before |-> a,
                  emitted |-> walked.emitted, after |-> walked.a]]

\* process_animation_queue, the while loop: seen holds the adapter at the
\* head of every pass so far; a pass that leads back to one of them never
\* leaves the loop, since nothing else feeds the loop condition
RECURSIVE ProcessLoop(_, _, _, _, _)
RECURSIVE ProcessNext(_, _, _, _, _)
ProcessLoop(a, last_time, tile_view, log, seen) ==
    IF ~(a.tokens[a.queue[1]].next <= last_time)
    THEN [a |-> a, log |-> log, hung |-> FALSE]
    ELSE ProcessNext(ProcessStep(a, last_time, tile_view), last_time, tile_view,
                     log, seen)

ProcessNext(step, last_time, tile_view, log, seen) ==
    IF step.a \in seen
    THEN [a |-> step.a, log |-> Append(log, step.rec), hung |-> TRUE]
    ELSE ProcessLoop(step.a, last_time, tile_view, Append(log, step.rec),
                     seen \cup {step.a})

\* PyscrollDataAdapter.process_animation_queue after its _update_time()
ProcessAnimationQueue(a, last_time, tile_view) ==
    IF a.queue = <<>> \/ a.tokens[a.queue[1]].next > last_time
    THEN [a |-> a, log |-> <<>>, hung |-> FALSE]
    ELSE ProcessLoop(a, last_time, tile_view, <<>>, {a})

\* a multiplier that is applied to the frame in progress as well
SetSpeedRescheduleMut(a, multiplier) ==
    [a EXCEPT !.tokens =
        [t \in 1..Len(a.tokens) |->
            [a.tokens[t] EXCEPT !.speed_multiplier = multiplier,
                                !.next = @ - (FrameAt(a.tokens[t], a.tokens[t].index).duration
                                              - EffectiveDuration(
                                                    FrameAt(a.tokens[t], a.tokens[t].index),
                                                    multiplier))]]]

\* set_animation_speed_multiplier, multiplier > 0: every token of the queue
SetAnimationSpeedMultiplier(a, multiplier) ==
    [a EXCEPT !.tokens =
        [t \in 1..Len(a.tokens) |->
            IF \E i \in 1..Len(a.queue) : a.queue[i] = t
            THEN [a.tokens[t] EXCEPT !.speed_multiplier = multiplier]
            ELSE a.tokens[t]]]

\* seq[start : stop] of Python, start >= 0: a negative stop counts from the end
PySlice(seq, start, stop) ==
    LET n == Len(seq)
        hi == IF stop < 0 THEN Max2(n + stop, 0) ELSE Min2(stop, n)
    IN  [first |-> Min2(start, n), last |-> hi - 1]

\* rev(seq, start, stop): the indexes enumerate() pairs with the slice
Rev(seq, start, stop) ==
    LET from == IF start < 0 THEN 0 ELSE start
        cut == PySlice(seq, from, stop + 1)
    IN  [i \in 1..Max2(cut.last - cut.first + 1, 0) |-> from + i - 1]

\* TiledMapData.get_tile_images_by_rect, the cells visited, in order: layer
\* by layer, row by row, over the layers' data
CellsByRect(data, layers, view) ==
    LET bb == RectToBB(view)
        Row(l, y) ==
            LET xs == Rev(data[l + 1][y + 1], bb.x1, bb.x2)
            IN  [i \in 1..Len(xs) |-> <<xs[i], y, l>>]
        RECURSIVE Rows(_, _, _)
        Rows(l, ys, j) ==
            IF j > Len(ys) THEN <<>> ELSE Row(l, ys[j]) \o Rows(l, ys, j + 1)
        RECURSIVE LayersFrom(_)
        LayersFrom(i) ==
            IF i > Len(layers) THEN <<>>
            ELSE Rows(layers[i], Rev(data[layers[i] + 1], bb.y1, bb.y2), 1)
                 \o LayersFrom(i + 1)
    IN  LayersFrom(1)

AQCellsByRect(view) == CellsByRect(AQLayerData, AQLayers, view)

\* TiledMapData.get_tile_images_by_rect, the loop body over the cells:
\* the adapter, the tiles yielded and a KeyError of anim_map[gid]
RECURSIVE TilesByRectLoop(_, _, _, _)
TilesByRectLoop(a, cells, i, tiles) ==
    IF i > Len(cells) THEN [a |-> a, tiles |-> tiles, raised |-> ""]
    ELSE LET position == cells[i]
             gid == AQTileGid(position[1], position[2], position[3])
             track == a.queue /= <<>>
             tracked == track /\ gid \in a.tracked_gids
             token == a.animation_map[gid]
             a2 == IF tracked
                   THEN [a EXCEPT !.positions[token] = @ \cup {position}]
                   ELSE a
             tile == IF a.animated_tile[position] /= 0
                     THEN a.animated_tile[position]
                     ELSE AQTileImageById(gid)
         IN  IF gid = 0 THEN TilesByRectLoop(a, cells, i + 1, tiles)
             ELSE IF tracked /\ token = 0
             THEN [a |-> a, tiles |-> tiles, raised |-> "KeyError"]
             ELSE TilesByRectLoop(a2, cells, i + 1,
                                  IF tile /= 0
                                  THEN Append(tiles, <<position[1], position[2],
                                                       position[3], tile>>)
                                  ELSE tiles)

GetTileImagesByRect(a, view) == TilesByRectLoop(a, AQCellsByRect(view), 1, <<>>)

(***************************************************************************)
(* TiledMapData.get_tile_images_by_rect over a map of several columns and  *)
(* rows, for views anywhere around it.  No animation is loaded: the        *)
(* animation queue is empty and every tile is the image of its gid.        *)
(***************************************************************************)
\* tmx.layers[l].data[y][x], layer 0 first: 2 rows of 3 columns
TBLayerData ==
    << << <<1, 2, 1>>, <<2, 0, 1>> >>,
       << <<0, 1, 0>>, <<0, 0, 2>> >> >>

\* tmx.visible_tile_layers
TBLayers == <<0, 1>>

\* tmx.images, indexed from gid 0
TBImages == <<0, 1, 2>>

\* the views: left and top within -TBCoordMin..TBCoordMax, width and height
\* within 1..TBMaxSize
TBCoordMin == 4

TBCoordMax == 3

TBMaxSize == 3

TBCoords == (0 - TBCoordMin)..TBCoordMax

TBViews ==
    {Rect(x, y, w, h) : x \in TBCoords, y \in TBCoords,
                        w \in 1..TBMaxSize, h \in 1..TBMaxSize}

\* the loop body of get_tile_images_by_rect with track = False and an empty
\* _animated_tile: cells without a gid are skipped, the others yield
\* (x, y, l, images[gid]) when the image is not None
RECURSIVE TiledTilesLoop(_, _, _, _, _)
TiledTilesLoop(data, images, cells, i, tiles) ==
    IF i > Len(cells) THEN tiles
    ELSE LET x == cells[i][1]
             y == cells[i][2]
             l == cells[i][3]
             gid == data[l + 1][y + 1][x + 1]
             tile == images[gid + 1]
         IN  TiledTilesLoop(data, images, cells, i + 1,
                            IF gid /= 0 /\ tile /= 0
                            THEN Append(tiles, <<x, y, l, tile>>)
                            ELSE tiles)

\* TiledMapData.get_tile_images_by_rect(view), no animation loaded
TiledTilesByRect(data, layers, images, view) ==
    TiledTilesLoop(data, images, CellsByRect(data, layers, view), 1, <<>>)

(***************************************************************************)
(* ViewPort: the camera arithmetic on its own, over the map of the         *)
(* renderer above.  A zoom level is a pair <<n, d>> standing for n / d.     *)
(***************************************************************************)
\* the screen sizes and the zoom levels a ViewPort is given
VPSizes == {<<3, 3>>, <<6, 5>>}

VPZooms == {<<-1, 2>>, <<0, 1>>, <<1, 2>>, <<1, 1>>, <<2, 1>>}

\* the pixel vectors of scroll()
VPVectors == {-1, 0, 2}

\* int(n / d) for n >= 0 and d /= 0: the quotient truncated towards zero
IntQuotient(n, d) == IF d > 0 THEN n \div d ELSE 0 - (n \div (0 - d))

\* ViewPort._calculate_buffer_size: int(size * (1.0 / value)), value /= 0
CalculateBufferSize(size, value) ==
    <<IntQuotient(size[1] * value[2], value[1]),
      IntQuotient(size[2] * value[2], value[1])>>

\* ViewPort.center(coords), coords in halves of a pixel: the ViewPort and the
\* tuple returned
ViewPortCenter(v, cx2, cy2) ==
    LET x0 == PyRound(cx2)
        y0 == PyRound(cy2)
        vr0 == SetCenter(v.view_rect, x0, y0)
        vr == IF v.clamp_camera THEN ClampIp(vr0, v.map_rect) ELSE vr0
        x == IF v.clamp_camera THEN RCenterX(vr) ELSE x0
        y == IF v.clamp_camera THEN RCenterY(vr) ELSE y0
        left0 == (x - v.half_width) \div BRTileW
        xo0 == (x - v.half_width) % BRTileW
        top0 == (y - v.half_height) \div BRTileH
        yo0 == (y - v.half_height) % BRTileH
        ax == IF v.clamp_camera
              THEN [origin |-> left0, offset |-> xo0, anchored |-> TRUE]
              ELSE UnclampedAxis(left0, xo0, x - v.half_width, v.tile_view.w,
                                 BRMapW, v.tile_view.x, BRTileW)
        ay == IF v.clamp_camera
              THEN [origin |-> top0, offset |-> yo0, anchored |-> TRUE]
              ELSE UnclampedAxis(top0, yo0, y - v.half_height, v.tile_view.h,
                                 BRMapH, v.tile_view.y, BRTileH)
        dx == ax.origin - v.tile_view.x
        dy == ay.origin - v.tile_view.y
    IN  [v |-> [v EXCEPT !.view_rect = vr,
                         !.x_offset = ax.offset, !.y_offset = ay.offset,
                         !.anchored_view = ax.anchored /\ ay.anchored],
         ret |-> <<ax.origin, ay.origin, dx, dy, Max2(Abs(dx), Abs(dy))>>]

\* a tile_view of the tiles the view touches, with no margin tile
ViewPortResizeNoMarginMut(v, size) ==
    LET view_size == CalculateBufferSize(size, v.zoom_level)
    IN  [v EXCEPT !.size = size,
                  !.map_rect = Rect(0, 0, BRMapW * BRTileW, BRMapH * BRTileH),
                  !.view_rect = Rect(@.x, @.y, view_size[1], view_size[2]),
                  !.tile_view = Rect(0, 0, CeilDiv(view_size[1], BRTileW),
                                           CeilDiv(view_size[2], BRTileH)),
                  !.half_width = view_size[1] \div 2,
                  !.half_height = view_size[2] \div 2]

\* ViewPort.set_size(size) up to its center() call
ViewPortResize(v, size) ==
    LET view_size == CalculateBufferSize(size, v.zoom_level)
    IN  [v EXCEPT !.size = size,
                  !.map_rect = Rect(0, 0, BRMapW * BRTileW, BRMapH * BRTileH),
                  !.view_rect = Rect(@.x, @.y, view_size[1], view_size[2]),
                  !.tile_view = Rect(0, 0, CeilDiv(view_size[1], BRTileW) + 1,
                                           CeilDiv(view_size[2], BRTileH) + 1),
                  !.half_width = view_size[1] \div 2,
                  !.half_height = view_size[2] \div 2]

\* ViewPort.set_size(size): the ViewPort and buffer_pixel_size
ViewPortSetSize(v, size) ==
    LET resized == ViewPortResize(v, size)
    IN  [v |-> ViewPortCenter(resized, 2 * RCenterX(resized.view_rect),
                                       2 * RCenterY(resized.view_rect)).v,
         ret |-> <<resized.tile_view.w * BRTileW, resized.tile_view.h * BRTileH>>]

\* ViewPort.__init__ up to its set_size() call
ViewPortFields(zoom, clamp_camera) ==
    [clamp_camera |-> clamp_camera, zoom_level |-> zoom,
     anchored_view |-> TRUE, x_offset |-> 0, y_offset |-> 0,
     size |-> <<0, 0>>, half_width |-> 0, half_height |-> 0,
     map_rect |-> Rect(0, 0, 0, 0), view_rect |-> Rect(0, 0, 0, 0),
     tile_view |-> Rect(0, 0, 0, 0)]

\* ViewPort.__init__: with a zoom of 0 the division in
\* _calculate_buffer_size raises and the object is left as it was
NewViewPort(size, zoom, clamp_camera) ==
    IF zoom[1] = 0 THEN ViewPortFields(zoom, clamp_camera)
    ELSE ViewPortSetSize(ViewPortFields(zoom, clamp_camera), size).v

(***************************************************************************)
(* TileRenderer, and the full redraw of BufferedRenderer, over the map of  *)
(* the renderer above.  A pixel of the buffer surface is what fills it     *)
(* ("stale" for what an earlier frame left, the colour of a fill, or       *)
(* "covered" under an opaque tile) and the tile images that show over it.  *)
(***************************************************************************)
\* the clear_color a renderer is configured with: None, a colorkey, or
\* (0, 0, 0, 0) for alpha
TRClearColors == {"none", "colorkey", "rgba_clear"}

\* the tile_view handed to the calls
TRViews == {Rect(0, 0, 3, 3), Rect(2, 1, 3, 3)}

\* the dx and dy handed to queue_edge_tiles
TRMaxMove == 2

TRMoves == (0 - TRMaxMove)..TRMaxMove

\* the calls made on one buffer surface
TRMaxCalls == 2

StalePixel == [fill |-> "stale", images |-> <<>>]

\* Surface.fill(color, area) on one pixel
FilledPixel(color) == [fill |-> color, images |-> <<>>]

\* Surface.blit of one tile image on one pixel
BlitPixel(pixel, image) ==
    IF IsOpaque(image) THEN [fill |-> "covered", images |-> <<image>>]
    ELSE [pixel EXCEPT !.images = Append(@, image)]

\* TileRenderer.clear_region: the colour it fills with
ClearRegionColor(t) ==
    IF t.clear_color /= "none" THEN t.clear_color
    ELSE IF t.has_alpha THEN "rgba_clear" ELSE "rgb_clear"

\* BufferedRenderer._clear_surface: the colour it fills with
ClearSurfaceColor(t) ==
    IF t.clear_color = "none" THEN "rgb_clear" ELSE t.clear_color

\* the cells product(range(y1, y2 + 1), range(x1, x2 + 1)) walks on layer l
RectCells(rect, l) ==
    IF rect.w <= 0 \/ rect.h <= 0 THEN <<>>
    ELSE [i \in 1..(rect.w * rect.h) |->
             <<rect.x + ((i - 1) % rect.w), rect.y + ((i - 1) \div rect.w), l>>]

\* PyscrollDataAdapter.get_tile_images_by_rect(rect), from layer i on: the
\* tuples (x, y, layer, image) in the order they are yielded
RECURSIVE TileImagesByRect(_, _)
TileImagesByRect(rect, i) ==
    IF i > Len(BRLayers) THEN <<>>
    ELSE LET HasTile(t) == GetTileImage(t[1], t[2], t[3]) /= <<>>
             found == SelectSeq(RectCells(rect, BRLayers[i]), HasTile)
         IN  [k \in 1..Len(found) |->
                 <<found[k][1], found[k][2], found[k][3],
                   GetTileImage(found[k][1], found[k][2], found[k][3])>>]
             \o TileImagesByRect(rect, i + 1)

\* queue.extend(get_images(rect)) for each rectangle of rects in turn
RECURSIVE ExtendQueue(_, _, _)
ExtendQueue(queue, rects, i) ==
    IF i > Len(rects) THEN queue
    ELSE ExtendQueue(queue \o TileImagesByRect(rects[i], 1), rects, i + 1)

\* clear_region(buffer_surface, area) for the areas of the rectangles rects,
\* given in tiles of the map: the part of an area outside the surface is
\* clipped
ClearRegions(buffer, tile_view, rects, color) ==
    [c \in BufferCells(tile_view) |->
        IF \E i \in 1..Len(rects) :
               InBB(RectToBB(rects[i]), c[1] + tile_view.x, c[2] + tile_view.y)
        THEN FilledPixel(color) ELSE buffer[c]]

\* TileRenderer.queue_edge_tiles(tile_view, dx, dy, buffer_surface): the
\* queue returned and the buffer surface
QueueEdgeTiles(t, buffer, tile_view, dx, dy) ==
    LET rects == EdgeViews(tile_view, dx, dy)
    IN  [queue |-> ExtendQueue(<<>>, rects, 1),
         buffer |-> ClearRegions(buffer, tile_view, rects, ClearRegionColor(t))]

\* buffer_surface.blits(blit_items): the tiles of the queue from item i on,
\* each at the cell (x - tile_view.left, y - tile_view.top); a blit outside
\* the surface is clipped
RECURSIVE TRFlushTileQueue(_, _, _, _)
TRFlushTileQueue(buffer, tile_view, queue, i) ==
    IF i > Len(queue) THEN buffer
    ELSE LET c == <<queue[i][1] - tile_view.x, queue[i][2] - tile_view.y>>
         IN  TRFlushTileQueue(
                 IF c \in BufferCells(tile_view)
                 THEN [buffer EXCEPT ![c] = BlitPixel(@, queue[i][4])]
                 ELSE buffer,
                 tile_view, queue, i + 1)

\* TileRenderer.redraw_all(tile_view, buffer_surface)
RedrawAll(buffer, tile_view) ==
    LET queue == TileImagesByRect(tile_view, 1)
    IN  [queue |-> queue,
         buffer |-> TRFlushTileQueue(buffer, tile_view, queue, 1)]

\* BufferedRenderer.redraw_tiles(self._buffer)
TRRedrawTiles(t, buffer, tile_view) ==
    LET queue == TileImagesByRect(tile_view, 1)
    IN  [queue |-> queue,
         buffer |-> TRFlushTileQueue(
                        [c \in BufferCells(tile_view) |->
                            FilledPixel(ClearSurfaceColor(t))],
                        tile_view, queue, 1)]

(***************************************************************************)
(* The damage/layering pass: BufferedRenderer._draw_surfaces and           *)
(* SpriteRenderer.render_sprites.  A renderable is a record of its rect,   *)
(* its layer and its blendmode ("none" for None); every renderable has a   *)
(* surface.  A blit_op is the tuple (layer, priority, x, y, order,         *)
(* surface, blend) of the code.                                            *)
(***************************************************************************)
\* the renderables handed to one call
DSRects == {Rect(0, 0, 2, 2), Rect(1, 0, 2, 2), Rect(4, 1, 2, 2)}

DSLayers == {0, 1, 2}

DSBlends == {"none", "BLEND_ADD"}

DSRenderables ==
    {[rect |-> r, layer |-> l, blendmode |-> b] :
        r \in DSRects, l \in DSLayers, b \in DSBlends}

DSSurfaceLists ==
    {<<a>> : a \in DSRenderables} \cup {<<a, b>> : a, b \in DSRenderables}

\* (x_offset, y_offset) of the renderer, which _render_map hands on as
\* surfaces_offset for a destination rect at the origin
DSOffsets == {<<0, 0>>, <<1, 0>>}

DSTallSprites == {0, 1}

\* the rects of the buffer's tile cells, in buffer pixels, and the quadtree
\* _initialize_buffers builds over them
LayerQuadTree(tile_view) ==
    FastQuadTree({Rect(x * BRTileW, y * BRTileH, BRTileW, BRTileH) :
                     x \in 0..(tile_view.w - 1), y \in 0..(tile_view.h - 1)}, 4)

\* the damage rect of one renderable
DamageRect(renderable, offset, tall_sprites) ==
    LET moved == Rect(renderable.rect.x + offset[1], renderable.rect.y + offset[2],
                      renderable.rect.w, renderable.rect.h)
    IN  IF tall_sprites /= 0
        THEN Rect(moved.x, moved.y + (moved.h - tall_sprites), moved.w, tall_sprites)
        ELSE moved

\* sprite_damage: the set of (renderable.layer, hit_rect)
SpriteDamage(d, surfaces) ==
    UNION {IF surfaces[k].layer <= BRLayers[Len(BRLayers)]
           THEN {<<surfaces[k].layer, hit_rect>> :
                    hit_rect \in QTHit(d.layer_quadtree,
                                       DamageRect(surfaces[k], d.offset,
                                                  d.tall_sprites))}
           ELSE {} : k \in 1..Len(surfaces)}

\* the orders in which a for loop may walk a set
Walks(S) ==
    {w \in [1..Cardinality(S) -> S] :
        \A i, j \in 1..Cardinality(S) : i /= j => w[i] /= w[j]}

\* the blit_ops of the renderables, order counting from 0
SpriteBlits(surfaces) ==
    [k \in 1..Len(surfaces) |->
        <<surfaces[k].layer, 1, surfaces[k].rect.x, surfaces[k].rect.y, k - 1,
          <<"surface", k>>, surfaces[k].blendmode>>]

\* the column of map cell (tx, ty) from tile layer i on: a blit_op at
\* (sx, sy) for every layer that has a tile
RECURSIVE Column(_, _, _, _, _, _)
Column(tx, ty, sx, sy, order, i) ==
    IF i > Len(BRLayers) THEN <<>>
    ELSE LET tile == GetTileImage(tx, ty, BRLayers[i])
         IN  IF tile = <<>> THEN Column(tx, ty, sx, sy, order, i + 1)
             ELSE <<<<BRLayers[i], 0, sx, sy, order, tile, "none">>>>
                  \o Column(tx, ty, sx, sy, order + 1, i + 1)

\* a loop that keeps every column, whether or not it is over the renderable
RECURSIVE DamageBlitsKeepAllMut(_, _, _, _)
DamageBlitsKeepAllMut(d, walk, i, order) ==
    IF i > Len(walk) THEN <<>>
    ELSE LET x == walk[i][2].x
             y == walk[i][2].y
             tx == x \div walk[i][2].w + d.tile_view.x
             ty == y \div walk[i][2].h + d.tile_view.y
             column == Column(tx, ty, x - d.offset[1], y - d.offset[2], order, 1)
         IN  column \o DamageBlitsKeepAllMut(d, walk, i + 1, order + Len(column))

\* the loop over sprite_damage, walked in the order walk from entry i on: the
\* blit_ops that blit_list is extended with
RECURSIVE DamageBlits(_, _, _, _)
DamageBlits(d, walk, i, order) ==
    IF i > Len(walk) THEN <<>>
    ELSE LET dl == walk[i][1]
             x == walk[i][2].x
             y == walk[i][2].y
             tx == x \div walk[i][2].w + d.tile_view.x
             ty == y \div walk[i][2].h + d.tile_view.y
             column == Column(tx, ty, x - d.offset[1], y - d.offset[2], order, 1)
             is_over == \E k \in 1..Len(column) : dl <= column[k][1]
         IN  (IF is_over THEN column ELSE <<>>)
             \o DamageBlits(d, walk, i + 1, order + Len(column))

\* tuple comparison of two blit_ops: order differs between any two, so the
\* surface and the blend are never compared
BlitLess(a, b) ==
    \E k \in 1..5 : a[k] < b[k] /\ \A j \in 1..(k - 1) : a[j] = b[j]

\* blit_list.sort()
SortBlits(blit_list) ==
    LET n == Len(blit_list)
        Rank(i) == 1 + Cardinality({j \in 1..n : BlitLess(blit_list[j], blit_list[i])})
    IN  [p \in 1..n |-> blit_list[CHOOSE i \in 1..n : Rank(i) = p]]

\* the sorted blit_list of both passes
SortedBlitList(d, surfaces, walk) ==
    SortBlits(SpriteBlits(surfaces) \o DamageBlits(d, walk, 1, Len(surfaces)))

HasBlend(blit_op) == blit_op[7] /= "none"

HasNoBlend(blit_op) == blit_op[7] = "none"

\* _draw_surfaces: surface.blits(draw_list2) paints the sorted list in order
DrawSurfacesPaint(blit_list) == blit_list

\* render_sprites: a blit_op with a blend mode is painted by surface.blit
\* inside the loop, the others by surface.blits(normal_blits) after it
RenderSpritesPaint(blit_list) ==
    SelectSeq(blit_list, HasBlend) \o SelectSeq(blit_list, HasNoBlend)

(***************************************************************************)
(* MapAggregator: child maps placed at offsets, in tiles.  A child map is   *)
(* known by its name; an entry of maps is a record of data, rect and layer. *)
(***************************************************************************)
\* the child maps: their map_size and tile_size
MAData ==
    [data1 |-> [map_size |-> <<5, 5>>, tile_size |-> <<16, 16>>],
     data2 |-> [map_size |-> <<5, 5>>, tile_size |-> <<16, 16>>],
     data3 |-> [map_size |-> <<3, 3>>, tile_size |-> <<32, 32>>],
     data4 |-> [map_size |-> <<2, 7>>, tile_size |-> <<16, 16>>]]

\* the offsets handed to add_map
MAOffsets == {<<0, 0>>, <<5, 0>>, <<3, 0>>, <<-2, -2>>, <<0, -1>>}

\* the maps registered at one time
MAMaxMaps == 3

\* the calls made on one aggregator
MAMaxCalls == 4

\* MapAggregator(tile_size, normalize)
NewAggregator(tile_size, normalize) ==
    [tile_size |-> tile_size, normalize |-> normalize, map_size |-> <<0, 0>>,
     maps |-> <<>>, min_x |-> 0, min_y |-> 0]

\* _update_map_size
UpdateMapSize(m) ==
    [m EXCEPT !.map_size =
        <<SetMax({0} \cup {RRight(m.maps[i].rect) : i \in 1..Len(m.maps)}),
          SetMax({0} \cup {RBottom(m.maps[i].rect) : i \in 1..Len(m.maps)})>>]

\* a normalization that shifts nothing
NormalizePositionsNoShiftMut(m) == m

\* _normalize_positions
NormalizePositions(m) ==
    IF m.min_x < 0 \/ m.min_y < 0
    THEN [m EXCEPT !.maps = [i \in 1..Len(m.maps) |->
                                [m.maps[i] EXCEPT !.rect.x = @ - m.min_x,
                                                  !.rect.y = @ - m.min_y]],
                   !.min_x = 0, !.min_y = 0]
    ELSE m

\* _re_normalize_positions
ReNormalizePositions(m) ==
    IF m.maps = <<>>
    THEN [m EXCEPT !.min_x = 0, !.min_y = 0, !.map_size = <<0, 0>>]
    ELSE UpdateMapSize(NormalizePositions(
             [m EXCEPT !.min_x = SetMin({m.maps[i].rect.x : i \in 1..Len(m.maps)}),
                       !.min_y = SetMin({m.maps[i].rect.y : i \in 1..Len(m.maps)})]))

\* an add_map that takes a map of any tile size
AddMapAnyTileSizeMut(m, data, offset, layer) ==
    LET rect == Rect(offset[1], offset[2],
                     MAData[data].map_size[1], MAData[data].map_size[2])
    IN  [m |-> UpdateMapSize([m EXCEPT !.maps = Append(@, [data |-> data,
                                                           rect |-> rect,
                                                           layer |-> layer])]),
         raised |-> "none"]

\* add_map(data, offset, layer): the aggregator it leaves and the error raised
AddMap(m, data, offset, layer) ==
    IF MAData[data].tile_size /= m.tile_size
    THEN [m |-> m, raised |-> "ValueError"]
    ELSE LET rect == Rect(offset[1], offset[2],
                          MAData[data].map_size[1], MAData[data].map_size[2])
             appended == [m EXCEPT !.maps = Append(@, [data |-> data, rect |-> rect,
                                                       layer |-> layer])]
         IN  [m |-> UpdateMapSize(
                        IF m.normalize
                        THEN NormalizePositions(
                                 [appended EXCEPT !.min_x = Min2(@, rect.x),
                                                  !.min_y = Min2(@, rect.y)])
                        ELSE appended),
              raised |-> "none"]

\* remove_map(data)
RemoveMap(m, data) ==
    LET IsOther(entry) == entry.data /= data
        kept == [m EXCEPT !.maps = SelectSeq(@, IsOther)]
    IN  IF Len(kept.maps) = Len(m.maps)
        THEN [m |-> kept, raised |-> "ValueError"]
        ELSE [m |-> IF m.normalize THEN ReNormalizePositions(kept)
                    ELSE UpdateMapSize(kept),
              raised |-> "none"]

(***************************************************************************)
(* Initial states and actions                                              *)
(***************************************************************************)
QTInit ==
    /\ qt_items \in QTItemSets(QTMaxItems)
    /\ qt_depth \in 0..QTMaxDepth
    /\ qt_tree = FastQuadTree(qt_items, qt_depth)
    /\ qt_query = <<>>
    /\ qt_hits = {}
    /\ qt_iter = <<>>

QTIdle ==
    /\ qt_items = {}
    /\ qt_depth = 0
    /\ qt_tree = <<>>
    /\ qt_query = <<>>
    /\ qt_hits = {}
    /\ qt_iter = <<>>

QTHitCall ==
    \E q \in QTRects :
        /\ qt_query' = q
        /\ qt_hits' = QTHit(qt_tree, q)
        /\ qt_iter' = <<>>
        /\ UNCHANGED <<qt_items, qt_depth, qt_tree>>
        /\ UNCHANGED <<tok_vars, clk_vars, br_vars, aq_vars, vp_vars, tr_vars, ds_vars, ma_vars, tn_vars, tb_vars>>

\* list(tree)
QTIterCall ==
    /\ qt_iter' = [item \in qt_items |-> QTIterCount(qt_tree, item)]
    /\ qt_query' = <<>>
    /\ qt_hits' = {}
    /\ UNCHANGED <<qt_items, qt_depth, qt_tree>>
    /\ UNCHANGED <<tok_vars, clk_vars, br_vars, aq_vars, vp_vars, tr_vars, ds_vars, ma_vars, tn_vars, tb_vars>>

TokInit ==
    /\ tok_jitter \in TokJitters
    /\ \E jitter_offset \in 0..tok_jitter :
           tok \in {NewTokenJitter(f, 0, l, s, p, jitter_offset) :
                       f \in TokFrameSeqs, l \in BOOLEAN,
                       s \in TokSpeeds, p \in BOOLEAN}
    /\ tok_op = "new"
    /\ tok_arg = 0
    /\ tok_ret = -1
    /\ tok_raised = FALSE
    /\ tok_steps = 0
    /\ tok_pure = (tok_jitter = 0)

TokIdle ==
    /\ tok = <<>>
    /\ tok_op = "idle"
    /\ tok_arg = 0
    /\ tok_ret = -1
    /\ tok_raised = FALSE
    /\ tok_steps = 0
    /\ tok_pure = TRUE
    /\ tok_jitter = 0

\* token.advance(current_time); a token whose last call raised is not used again
TokAdvance ==
    \E current_time \in 0..TokMaxTime :
        LET a == Advance(tok, current_time)
        IN  /\ ~tok_raised
            /\ tok' = a.tok
            /\ tok_op' = "advance"
            /\ tok_arg' = current_time
            /\ tok_ret' = a.ret
            /\ tok_raised' = a.raised
            /\ tok_steps' = 0
            /\ tok_pure' = FALSE
            /\ tok_jitter' = 0
            /\ UNCHANGED <<qt_vars, clk_vars, br_vars, aq_vars, vp_vars, tr_vars, ds_vars, ma_vars, tn_vars, tb_vars>>

\* token.update(current_time, elapsed_time); elapsed_time is not read
TokUpdate ==
    \E current_time \in 0..TokMaxTime :
        LET u == Update(tok, current_time)
        IN  /\ ~tok_raised
            /\ tok' = u.tok
            /\ tok_op' = "update"
            /\ tok_arg' = current_time
            /\ tok_ret' = IF u.raised THEN -1 ELSE FramePos(u.tok, u.tok.index)
            /\ tok_raised' = u.raised
            /\ tok_steps' = u.steps
            /\ tok_pure' = (tok_pure /\ ~u.raised /\ current_time >= tok_arg
                            /\ u.steps <= FrameCount(tok) * 4)
            /\ tok_jitter' = 0
            /\ UNCHANGED <<qt_vars, clk_vars, br_vars, aq_vars, vp_vars, tr_vars, ds_vars, ma_vars, tn_vars, tb_vars>>

\* set_animation_speed_multiplier(multiplier) of the data adapter, seen from
\* one token of its queue: multiplier > 0, the token's speed_multiplier is set
TokSetSpeed ==
    \E multiplier \in TokSpeeds :
        /\ ~tok_raised
        /\ multiplier /= tok.speed_multiplier
        /\ tok' = [tok EXCEPT !.speed_multiplier = multiplier]
        /\ tok_op' = "speed"
        /\ tok_pure' = FALSE
        /\ tok_jitter' = 0
        /\ UNCHANGED <<tok_arg, tok_ret, tok_raised, tok_steps>>
        /\ UNCHANGED <<qt_vars, clk_vars, br_vars, aq_vars, vp_vars, tr_vars, ds_vars, ma_vars, tn_vars, tb_vars>>

\* no AnimationToken(...) call made yet
TNInit ==
    /\ tn = <<>>
    /\ tn_op = "none"
    /\ tn_tok = <<>>
    /\ tn_raised = "none"

TNIdle ==
    /\ tn = <<>>
    /\ tn_op = "idle"
    /\ tn_tok = <<>>
    /\ tn_raised = "none"

\* AnimationToken(positions, frames, initial_time, loop, speed_multiplier,
\* ping_pong): the arguments, the token created and the error raised
TNConstruct ==
    \E frames \in TNFrameSeqs, initial_time \in 0..1, loop \in BOOLEAN,
       speed_multiplier \in TNSpeeds, ping_pong \in BOOLEAN :
        /\ tn' = [frames |-> frames, initial_time |-> initial_time, loop |-> loop,
                  speed_multiplier |-> speed_multiplier, ping_pong |-> ping_pong]
        /\ tn_op' = "new"
        /\ tn_tok' = AnimationToken(frames, initial_time, loop, speed_multiplier,
                                    ping_pong).tok
        /\ tn_raised' = AnimationToken(frames, initial_time, loop, speed_multiplier,
                                       ping_pong).raised
        /\ UNCHANGED <<qt_vars, tok_vars, clk_vars, br_vars, aq_vars, vp_vars, tr_vars,
                       ds_vars, ma_vars, tb_vars>>

TBInit ==
    /\ tb_view = <<>>
    /\ tb_tiles = <<>>
    /\ tb_op = "new"

TBIdle ==
    /\ tb_view = <<>>
    /\ tb_tiles = <<>>
    /\ tb_op = "idle"

\* the result of get_tile_images_by_rect(view)
TBCalled(view, tiles) ==
    /\ tb_view' = view
    /\ tb_tiles' = tiles
    /\ tb_op' = "get_tile_images_by_rect"
    /\ UNCHANGED <<qt_vars, tok_vars, clk_vars, br_vars, aq_vars, vp_vars, tr_vars,
                   ds_vars, ma_vars, tn_vars>>

\* list(data.get_tile_images_by_rect(view))
TBGetTileImagesByRect ==
    \E view \in TBViews :
        TBCalled(view, TiledTilesByRect(TBLayerData, TBLayers, TBImages, view))

ClkInit ==
    /\ clk = NewClock
    /\ clk_now = 1
    /\ clk_op = "new"
    /\ clk_at_pause = 0
    /\ clk_pause_instant = 0

ClkIdle ==
    /\ clk = <<>>
    /\ clk_now = 0
    /\ clk_op = "idle"
    /\ clk_at_pause = 0
    /\ clk_pause_instant = 0

\* real time passes
ClkTick ==
    /\ clk_now < ClkMaxTime
    /\ clk_now' = clk_now + 1
    /\ UNCHANGED <<clk, clk_op, clk_at_pause, clk_pause_instant>>
    /\ UNCHANGED <<qt_vars, tok_vars, br_vars, aq_vars, vp_vars, tr_vars, ds_vars, ma_vars, tn_vars, tb_vars>>

\* the _update_time() call that opens process_animation_queue() and
\* reload_animations()
ClkUpdateTime ==
    /\ clk' = UpdateTime(clk, clk_now)
    /\ clk_op' = "update_time"
    /\ UNCHANGED <<clk_now, clk_at_pause, clk_pause_instant>>
    /\ UNCHANGED <<qt_vars, tok_vars, br_vars, aq_vars, vp_vars, tr_vars, ds_vars, ma_vars, tn_vars, tb_vars>>

ClkPause ==
    /\ ~clk.is_paused
    /\ clk' = PauseAnimations(clk, clk_now)
    /\ clk_op' = "pause"
    /\ clk_at_pause' = clk.last_time
    /\ clk_pause_instant' = clk_now
    /\ UNCHANGED clk_now
    /\ UNCHANGED <<qt_vars, tok_vars, br_vars, aq_vars, vp_vars, tr_vars, ds_vars, ma_vars, tn_vars, tb_vars>>

ClkResume ==
    /\ clk.is_paused
    /\ clk' = ResumeAnimations(clk, clk_now)
    /\ clk_op' = "resume"
    /\ UNCHANGED <<clk_now, clk_at_pause, clk_pause_instant>>
    /\ UNCHANGED <<qt_vars, tok_vars, br_vars, aq_vars, vp_vars, tr_vars, ds_vars, ma_vars, tn_vars, tb_vars>>

\* the caller selects the pause mode by assigning _pause_mode_skip_ahead
ClkSetPauseMode ==
    \E skip_ahead \in BOOLEAN :
        /\ skip_ahead /= clk.pause_mode_skip_ahead
        /\ clk' = [clk EXCEPT !.pause_mode_skip_ahead = skip_ahead]
        /\ clk_op' = "mode"
        /\ UNCHANGED <<clk_now, clk_at_pause, clk_pause_instant>>
        /\ UNCHANGED <<qt_vars, tok_vars, br_vars, aq_vars, vp_vars, tr_vars, ds_vars, ma_vars, tn_vars, tb_vars>>

BRInit ==
    /\ br \in {NewRenderer(c) : c \in BOOLEAN}
    /\ br_buffer = RedrawTiles(br.tile_view)
    /\ br_path = "new"

BRIdle ==
    /\ br = <<>>
    /\ br_buffer = <<>>
    /\ br_path = "idle"

\* the pixel coordinates the camera is sent to: the map and a margin around it
BRCoords(map_tiles, tile) == (0 - BRMargin)..(map_tiles * tile + BRMargin)

\* center(coords) with integer coordinates: the camera is sent along its
\* row, along its column or along a diagonal
BRCenter ==
    \E x \in BRCoords(BRMapW, BRTileW), y \in BRCoords(BRMapH, BRTileH) :
        LET c == Center(br, br_buffer, 2 * x, 2 * y)
        IN  /\ \/ x = RCenterX(br.view_rect)
               \/ y = RCenterY(br.view_rect)
               \/ Abs(x - RCenterX(br.view_rect)) = Abs(y - RCenterY(br.view_rect))
            /\ br' = c.r
            /\ br_buffer' = c.buffer
            /\ br_path' = c.path
            /\ UNCHANGED <<qt_vars, tok_vars, clk_vars, aq_vars, vp_vars, tr_vars, ds_vars, ma_vars, tn_vars, tb_vars>>

\* scroll(vector), the vector in halves of a pixel: center() on the view
\* centre moved by the vector, kept within the coordinates of BRCoords
BRScroll ==
    \E vx2 \in -2..2, vy2 \in -2..2 :
        LET cx2 == vx2 + 2 * RCenterX(br.view_rect)
            cy2 == vy2 + 2 * RCenterY(br.view_rect)
            c == Center(br, br_buffer, cx2, cy2)
        IN  /\ PyRound(cx2) \in BRCoords(BRMapW, BRTileW)
            /\ PyRound(cy2) \in BRCoords(BRMapH, BRTileH)
            /\ br' = c.r
            /\ br_buffer' = c.buffer
            /\ br_path' = c.path
            /\ UNCHANGED <<qt_vars, tok_vars, clk_vars, aq_vars, vp_vars, tr_vars, ds_vars, ma_vars, tn_vars, tb_vars>>

\* set_size(size)
BRSetSize ==
    \E size \in BRSizes :
        LET c == SetSize(br, size)
        IN  /\ br' = c.r
            /\ br_buffer' = c.buffer
            /\ br_path' = "set_size"
            /\ UNCHANGED <<qt_vars, tok_vars, clk_vars, aq_vars, vp_vars, tr_vars, ds_vars, ma_vars, tn_vars, tb_vars>>

\* zoom = value: _calculate_zoom_buffer_size raises ValueError for a value
\* <= 0, before anything is written
BRSetZoom ==
    \E value \in BRZooms :
        /\ IF value[1] <= 0
           THEN /\ br_path' = "zoom_error"
                /\ UNCHANGED <<br, br_buffer>>
           ELSE LET c == SetZoom(br, value)
                IN  /\ br' = c.r
                    /\ br_buffer' = c.buffer
                    /\ br_path' = "zoom"
        /\ UNCHANGED <<qt_vars, tok_vars, clk_vars, aq_vars, vp_vars, tr_vars, ds_vars, ma_vars, tn_vars, tb_vars>>

\* a TiledMapData under construction: PyscrollDataAdapter.__init__ has run,
\* the reload_animations() that ends TiledMapData.__init__ has not
AQInit ==
    /\ aq = NewAdapter
    /\ aq_anims \in AQAnimations
    /\ aq_op = "new"
    /\ aq_arg = 0
    /\ aq_ret = 0
    /\ aq_raised = ""
    /\ aq_hung = FALSE
    /\ aq_log = <<>>
    /\ aq_before = NewAdapter
    /\ clk = NewClock
    /\ clk_now = SetMin(AQInstants)
    /\ clk_op = "new"
    /\ clk_at_pause = 0
    /\ clk_pause_instant = 0

AQIdle ==
    /\ aq = <<>>
    /\ aq_anims = <<>>
    /\ aq_op = "idle"
    /\ aq_arg = 0
    /\ aq_ret = 0
    /\ aq_raised = ""
    /\ aq_hung = FALSE
    /\ aq_log = <<>>
    /\ aq_before = <<>>

\* the adapter exists and its last call came back
AQCallable ==
    /\ aq_op /= "new"
    /\ ~aq_hung
    /\ ~(aq_op = "reload" /\ aq_raised /= "")

\* reload_animations(): the call in TiledMapData.__init__ and every later one
AQReload ==
    /\ aq_op = "new" \/ AQCallable
    /\ Len(aq.tokens) + Cardinality({g \in AQGids : aq_anims[g] /= <<>>}) <= AQMaxTokens
    /\ \E now \in AQInstants :
          LET c == UpdateTime(clk, now)
              r == ReloadAnimations(aq, aq_anims, c.last_time)
          IN  /\ now >= clk_now
              /\ clk_now' = now
              /\ clk' = c
              /\ aq' = r.a
              /\ aq_raised' = r.raised
    /\ aq_op' = "reload"
    /\ aq_arg' = 0
    /\ aq_ret' = 0
    /\ aq_hung' = FALSE
    /\ aq_log' = <<>>
    /\ aq_before' = aq
    /\ clk_op' = "update_time"
    /\ UNCHANGED <<aq_anims, clk_at_pause, clk_pause_instant>>
    /\ UNCHANGED <<qt_vars, tok_vars, br_vars, vp_vars, tr_vars, ds_vars, ma_vars, tn_vars, tb_vars>>

\* process_animation_queue(tile_view): what the call leaves
AQProcessed(r) ==
    /\ aq' = r.a
    /\ aq_log' = r.log
    /\ aq_hung' = r.hung

\* process_animation_queue(tile_view)
AQProcess ==
    \E tile_view \in AQViews :
        /\ AQCallable
        /\ \E now \in AQInstants :
              LET c == UpdateTime(clk, now)
              IN  /\ now >= clk_now
                  /\ clk_now' = now
                  /\ clk' = c
                  /\ AQProcessed(ProcessAnimationQueue(aq, c.last_time, tile_view))
        /\ aq_op' = "process"
        /\ aq_arg' = tile_view
        /\ aq_ret' = 0
        /\ aq_raised' = ""
        /\ aq_before' = aq
        /\ clk_op' = "update_time"
        /\ UNCHANGED <<aq_anims, clk_at_pause, clk_pause_instant>>
        /\ UNCHANGED <<qt_vars, tok_vars, br_vars, vp_vars, tr_vars, ds_vars, ma_vars, tn_vars, tb_vars>>

\* set_animation_speed_multiplier(multiplier)
AQSetSpeed ==
    \E multiplier \in AQSpeeds :
        /\ AQCallable
        /\ IF multiplier <= 0
           THEN aq' = aq /\ aq_raised' = "ValueError"
           ELSE aq' = SetAnimationSpeedMultiplier(aq, multiplier) /\ aq_raised' = ""
        /\ aq_op' = "set_speed"
        /\ aq_arg' = multiplier
        /\ aq_ret' = 0
        /\ aq_hung' = FALSE
        /\ aq_log' = <<>>
        /\ aq_before' = aq
        /\ UNCHANGED <<aq_anims, clk_vars>>
        /\ UNCHANGED <<qt_vars, tok_vars, br_vars, vp_vars, tr_vars, ds_vars, ma_vars, tn_vars, tb_vars>>

\* get_tile_image(x, y, l) for a cell that holds a tile
AQGetImage ==
    \E position \in AQTiles :
        /\ AQCallable
        /\ LET r == AQGetTileImage(aq, position[1], position[2], position[3])
           IN  /\ aq' = r.a
               /\ aq_ret' = r.image
        /\ aq_op' = "get_tile_image"
        /\ aq_arg' = position
        /\ aq_raised' = ""
        /\ aq_hung' = FALSE
        /\ aq_log' = <<>>
        /\ aq_before' = aq
        /\ UNCHANGED <<aq_anims, clk_vars>>
        /\ UNCHANGED <<qt_vars, tok_vars, br_vars, vp_vars, tr_vars, ds_vars, ma_vars, tn_vars, tb_vars>>

\* get_tile_images_by_rect(view), the generator run to its end
AQGetImagesByRect ==
    \E view \in AQQueryRects :
        /\ AQCallable
        /\ LET r == GetTileImagesByRect(aq, view)
           IN  /\ aq' = r.a
               /\ aq_ret' = r.tiles
               /\ aq_raised' = r.raised
        /\ aq_op' = "get_tile_images_by_rect"
        /\ aq_arg' = view
        /\ aq_hung' = FALSE
        /\ aq_log' = <<>>
        /\ aq_before' = aq
        /\ UNCHANGED <<aq_anims, clk_vars>>
        /\ UNCHANGED <<qt_vars, tok_vars, br_vars, vp_vars, tr_vars, ds_vars, ma_vars, tn_vars, tb_vars>>

VPInit ==
    /\ vp \in {NewViewPort(size, zoom, clamp_camera) :
                  size \in VPSizes, zoom \in VPZooms, clamp_camera \in BOOLEAN}
    /\ vp_op = "new"
    /\ vp_coords = <<2 * vp.half_width, 2 * vp.half_height>>
    /\ vp_ret = <<vp.tile_view.w * BRTileW, vp.tile_view.h * BRTileH>>
    /\ vp_raised = IF vp.zoom_level[1] = 0 THEN "ZeroDivisionError" ELSE "none"

VPIdle ==
    /\ vp = <<>>
    /\ vp_op = "idle"
    /\ vp_coords = <<>>
    /\ vp_ret = <<>>
    /\ vp_raised = "none"

\* a ViewPort whose construction has not raised
VPConstructed == ~(vp_op = "new" /\ vp_raised /= "none")

\* center(coords) with integer coordinates, one of them the coordinate of
\* the call before: center() keeps nothing of the camera position it leaves
\* (tile_view stays at the origin), so every position is reached in two calls
VPCenter ==
    \E x \in BRCoords(BRMapW, BRTileW), y \in BRCoords(BRMapH, BRTileH) :
        LET c == ViewPortCenter(vp, 2 * x, 2 * y)
        IN  /\ VPConstructed
            /\ 2 * x = vp_coords[1] \/ 2 * y = vp_coords[2]
            /\ vp' = c.v
            /\ vp_ret' = c.ret
            /\ vp_coords' = <<2 * x, 2 * y>>
            /\ vp_op' = "center"
            /\ vp_raised' = "none"
            /\ UNCHANGED <<qt_vars, tok_vars, clk_vars, br_vars, aq_vars, tr_vars, ds_vars, ma_vars, tn_vars, tb_vars>>

\* scroll(vector): center() on the view centre moved by the vector, kept
\* within the coordinates of BRCoords
VPScroll ==
    \E vx \in VPVectors, vy \in VPVectors :
        LET x == vx + RCenterX(vp.view_rect)
            y == vy + RCenterY(vp.view_rect)
            c == ViewPortCenter(vp, 2 * x, 2 * y)
        IN  /\ VPConstructed
            /\ x \in BRCoords(BRMapW, BRTileW)
            /\ y \in BRCoords(BRMapH, BRTileH)
            /\ vp' = c.v
            /\ vp_ret' = c.ret
            /\ vp_coords' = <<2 * x, 2 * y>>
            /\ vp_op' = "scroll"
            /\ vp_raised' = "none"
            /\ UNCHANGED <<qt_vars, tok_vars, clk_vars, br_vars, aq_vars, tr_vars, ds_vars, ma_vars, tn_vars, tb_vars>>

\* set_size(size)
VPSetSize ==
    \E size \in VPSizes :
        LET resized == ViewPortResize(vp, size)
            c == ViewPortSetSize(vp, size)
        IN  /\ VPConstructed
            /\ vp' = c.v
            /\ vp_ret' = c.ret
            /\ vp_coords' = <<2 * RCenterX(resized.view_rect),
                              2 * RCenterY(resized.view_rect)>>
            /\ vp_op' = "set_size"
            /\ vp_raised' = "none"
            /\ UNCHANGED <<qt_vars, tok_vars, clk_vars, br_vars, aq_vars, tr_vars, ds_vars, ma_vars, tn_vars, tb_vars>>

\* the zoom setter
VPSetZoom ==
    \E value \in VPZooms :
        LET zoomed == [vp EXCEPT !.zoom_level = value]
            resized == ViewPortResize(zoomed, vp.size)
        IN  /\ VPConstructed
            /\ IF value[1] <= 0
               THEN vp' = vp /\ vp_raised' = "ValueError" /\ UNCHANGED vp_coords
               ELSE /\ vp' = ViewPortSetSize(zoomed, vp.size).v
                    /\ vp_raised' = "none"
                    /\ vp_coords' = <<2 * RCenterX(resized.view_rect),
                                      2 * RCenterY(resized.view_rect)>>
            /\ vp_ret' = <<>>
            /\ vp_op' = "zoom"
            /\ UNCHANGED <<qt_vars, tok_vars, clk_vars, br_vars, aq_vars, tr_vars, ds_vars, ma_vars, tn_vars, tb_vars>>

\* a renderer and a buffer surface that holds what earlier frames left
TRInit ==
    /\ tr \in {[clear_color |-> c, has_alpha |-> a, tile_view |-> v, calls |-> 0] :
                  c \in TRClearColors, a \in BOOLEAN, v \in TRViews}
    /\ tr_buffer = [c \in BufferCells(tr.tile_view) |-> StalePixel]
    /\ tr_before = tr_buffer
    /\ tr_queue = <<>>
    /\ tr_op = "new"
    /\ tr_arg = <<>>

\* the result of a call on the buffer surface
TRCalled(op, arg, tile_view, r) ==
    /\ tr.calls < TRMaxCalls
    /\ tr' = [tr EXCEPT !.tile_view = tile_view, !.calls = @ + 1]
    /\ tr_buffer' = r.buffer
    /\ tr_queue' = r.queue
    /\ tr_before' = tr_buffer
    /\ tr_op' = op
    /\ tr_arg' = arg
    /\ UNCHANGED <<qt_vars, tok_vars, clk_vars, br_vars, aq_vars, vp_vars, ds_vars, ma_vars, tn_vars, tb_vars>>

\* queue_edge_tiles(tile_view, dx, dy, buffer_surface)
TRQueueEdgeTiles ==
    \E tile_view \in TRViews, dx \in TRMoves, dy \in TRMoves :
        TRCalled("queue_edge_tiles", <<dx, dy>>, tile_view,
                 QueueEdgeTiles(tr, tr_buffer, tile_view, dx, dy))

\* flush_tile_queue(tile_queue, tile_view, buffer_surface) with the queue
\* the last call returned
TRFlush ==
    /\ tr_op = "queue_edge_tiles"
    /\ TRCalled("flush_tile_queue", tr_arg, tr.tile_view,
                [queue |-> tr_queue,
                 buffer |-> TRFlushTileQueue(tr_buffer, tr.tile_view, tr_queue, 1)])

\* redraw_all(tile_view, buffer_surface)
TRRedrawAll ==
    \E tile_view \in TRViews :
        TRCalled("redraw_all", <<>>, tile_view, RedrawAll(tr_buffer, tile_view))

\* BufferedRenderer.redraw_tiles(self._buffer) at a tile_view
TRRedraw ==
    \E tile_view \in TRViews :
        TRCalled("redraw_tiles", <<>>, tile_view,
                 TRRedrawTiles(tr, tr_buffer, tile_view))

\* a renderer with its buffers initialised, and the renderables of a frame
DSInit ==
    /\ \E tile_view \in TRViews :
           ds \in {[tile_view |-> tile_view, offset |-> o, tall_sprites |-> t,
                    layer_quadtree |-> LayerQuadTree(tile_view),
                    surfaces |-> s] :
                      o \in DSOffsets, t \in DSTallSprites, s \in DSSurfaceLists}
    /\ ds_op = "new"
    /\ ds_list = <<>>
    /\ ds_paint = <<>>

\* the result of the pass over the renderables of a frame: the sorted
\* blit_list and the blit_ops as painted
DSCalled(op, blit_list, paint) ==
    /\ ds_op = "new"
    /\ ds_op' = op
    /\ ds_list' = blit_list
    /\ ds_paint' = paint
    /\ UNCHANGED ds
    /\ UNCHANGED <<qt_vars, tok_vars, clk_vars, br_vars, aq_vars, vp_vars, tr_vars,
                   ma_vars, tn_vars, tb_vars>>

\* _draw_surfaces with the sorted blit_list
DrawSurfaces(blit_list) ==
    DSCalled("_draw_surfaces", blit_list, DrawSurfacesPaint(blit_list))

\* render_sprites with the sorted blit_list
RenderSprites(blit_list) ==
    DSCalled("render_sprites", blit_list, RenderSpritesPaint(blit_list))

\* BufferedRenderer._draw_surfaces(surface, offset, surfaces)
DSDrawSurfaces ==
    \E walk \in Walks(SpriteDamage(ds, ds.surfaces)) :
        DrawSurfaces(SortedBlitList(ds, ds.surfaces, walk))

\* SpriteRenderer.render_sprites(surface, offset, tile_view, surfaces)
DSRenderSprites ==
    \E walk \in Walks(SpriteDamage(ds, ds.surfaces)) :
        RenderSprites(SortedBlitList(ds, ds.surfaces, walk))

TRIdle ==
    /\ tr = <<>>
    /\ tr_buffer = <<>>
    /\ tr_before = <<>>
    /\ tr_queue = <<>>
    /\ tr_op = "idle"
    /\ tr_arg = <<>>

DSIdle ==
    /\ ds = <<>>
    /\ ds_op = "idle"
    /\ ds_list = <<>>
    /\ ds_paint = <<>>

\* MapAggregator((16, 16), normalize)
MAInit ==
    /\ ma \in {NewAggregator(<<16, 16>>, n) : n \in BOOLEAN}
    /\ ma_op = "new"
    /\ ma_arg = <<>>
    /\ ma_raised = "none"
    /\ ma_calls = 0

MAIdle ==
    /\ ma = <<>>
    /\ ma_op = "idle"
    /\ ma_arg = <<>>
    /\ ma_raised = "none"
    /\ ma_calls = 0

\* the result of a call on the aggregator
MACalled(op, arg, r) ==
    /\ ma_calls < MAMaxCalls
    /\ ma_calls' = ma_calls + 1
    /\ ma' = r.m
    /\ ma_op' = op
    /\ ma_arg' = arg
    /\ ma_raised' = r.raised
    /\ UNCHANGED <<qt_vars, tok_vars, clk_vars, br_vars, aq_vars, vp_vars, tr_vars,
                   ds_vars, tn_vars, tb_vars>>

\* add_map(data, offset)
MAAddMap ==
    \E data \in DOMAIN MAData, offset \in MAOffsets :
        /\ Len(ma.maps) < MAMaxMaps
        /\ MACalled("add_map", <<data, offset>>, AddMap(ma, data, offset, 0))

\* remove_map(data)
MARemoveMap ==
    \E data \in DOMAIN MAData :
        MACalled("remove_map", <<data>>, RemoveMap(ma, data))

QTNext == QTHitCall \/ QTIterCall

TokNext == TokAdvance \/ TokUpdate \/ TokSetSpeed

ClkNext == ClkTick \/ ClkUpdateTime \/ ClkPause \/ ClkResume \/ ClkSetPauseMode

BRNext == BRCenter \/ BRScroll

BRZNext == BRCenter \/ BRScroll \/ BRSetSize \/ BRSetZoom

VPNext == VPCenter \/ VPScroll \/ VPSetSize \/ VPSetZoom

TRNext == TRQueueEdgeTiles \/ TRFlush \/ TRRedrawAll \/ TRRedraw

DSNext == DSDrawSurfaces \/ DSRenderSprites

MANext == MAAddMap \/ MARemoveMap

TNNext == TNConstruct

TBNext == TBGetTileImagesByRect

AQNext ==
    AQReload \/ AQProcess \/ AQSetSpeed \/ AQGetImage \/ AQGetImagesByRect

\* a FastQuadTree just built, nothing else built
InitQT ==
    QTInit /\ TokIdle /\ ClkIdle /\ BRIdle /\ AQIdle /\ VPIdle /\ TRIdle /\ DSIdle /\ MAIdle
    /\ TNIdle /\ TBIdle

SpecQT == InitQT /\ [][QTNext]_vars

\* an AnimationToken just built, nothing else built
InitTok ==
    TokInit /\ QTIdle /\ ClkIdle /\ BRIdle /\ AQIdle /\ VPIdle /\ TRIdle /\ DSIdle /\ MAIdle
    /\ TNIdle /\ TBIdle

SpecTok == InitTok /\ [][TokNext]_vars

\* a PyscrollDataAdapter just built, nothing else built
InitClk ==
    ClkInit /\ QTIdle /\ TokIdle /\ BRIdle /\ AQIdle /\ VPIdle /\ TRIdle /\ DSIdle /\ MAIdle
    /\ TNIdle /\ TBIdle

SpecClk == InitClk /\ [][ClkNext]_vars

\* a BufferedRenderer just built, nothing else built
InitBR ==
    BRInit /\ QTIdle /\ TokIdle /\ ClkIdle /\ AQIdle /\ VPIdle /\ TRIdle /\ DSIdle /\ MAIdle
    /\ TNIdle /\ TBIdle

SpecBR == InitBR /\ [][BRNext]_vars

\* BufferedRenderer resized and zoomed between the camera moves
SpecBRZ == InitBR /\ [][BRZNext]_vars

\* a TiledMapData under construction, nothing else built
InitAQ ==
    AQInit /\ QTIdle /\ TokIdle /\ BRIdle /\ VPIdle /\ TRIdle /\ DSIdle /\ MAIdle
    /\ TNIdle /\ TBIdle

SpecAQ == InitAQ /\ [][AQNext]_vars

\* a ViewPort just built, nothing else built
InitVP ==
    VPInit /\ QTIdle /\ TokIdle /\ ClkIdle /\ BRIdle /\ AQIdle /\ TRIdle /\ DSIdle /\ MAIdle
    /\ TNIdle /\ TBIdle

SpecVP == InitVP /\ [][VPNext]_vars

\* TileRenderer and the redraw of BufferedRenderer
InitTR ==
    TRInit /\ QTIdle /\ TokIdle /\ ClkIdle /\ BRIdle /\ AQIdle /\ VPIdle /\ DSIdle /\ MAIdle
    /\ TNIdle /\ TBIdle

SpecTR == InitTR /\ [][TRNext]_vars

\* the damage/layering pass over the renderables of a frame
InitDS ==
    DSInit /\ QTIdle /\ TokIdle /\ ClkIdle /\ BRIdle /\ AQIdle /\ VPIdle /\ TRIdle /\ MAIdle
    /\ TNIdle /\ TBIdle

SpecDS == InitDS /\ [][DSNext]_vars

\* a MapAggregator with no map registered
InitMA ==
    MAInit /\ QTIdle /\ TokIdle /\ ClkIdle /\ BRIdle /\ AQIdle /\ VPIdle /\ TRIdle
    /\ DSIdle /\ TNIdle /\ TBIdle

SpecMA == InitMA /\ [][MANext]_vars

\* the AnimationToken constructor on its own
InitTN ==
    TNInit /\ QTIdle /\ TokIdle /\ ClkIdle /\ BRIdle /\ AQIdle /\ VPIdle /\ TRIdle
    /\ DSIdle /\ MAIdle /\ TBIdle

SpecTN == InitTN /\ [][TNNext]_vars

\* a TiledMapData with its map loaded, nothing else built
InitTB ==
    TBInit /\ QTIdle /\ TokIdle /\ ClkIdle /\ BRIdle /\ AQIdle /\ VPIdle /\ TRIdle
    /\ DSIdle /\ MAIdle /\ TNIdle

SpecTB == InitTB /\ [][TBNext]_vars

(***************************************************************************)
(* Claims                                                                  *)
(***************************************************************************)
\* C1: hit(q) returns exactly the items whose rectangle overlaps q, the same
\* set as a brute-force scan of all items, for every item set, query and depth
C1_HitEqualsBruteForce ==
    qt_query /= <<>> => qt_hits = BruteForceHit(qt_items, qt_query)

\* two items in opposite corners of the boundary, depth 1: the query on the
\* first item itself comes back empty
C1_Witness ==
    /\ qt_items = {Rect(-2, -2, 1, 1), Rect(0, 0, 2, 2)}
    /\ qt_depth = 1
    /\ qt_query = Rect(-2, -2, 1, 1)
    /\ qt_hits = {}

C3_IndexInRange ==
    0 <= tok.index /\ tok.index <= FrameCount(tok) - 1

\* a single-frame ping-pong token after its first advance()
C3_Witness ==
    /\ FrameCount(tok) = 1 /\ tok.ping_pong
    /\ tok_op = "advance" /\ ~tok_raised
    /\ tok.index = -1

\* C4: in freeze mode the virtual clock _last_time has, right after
\* resume_animations(), the value it had when pause_animations() was called,
\* whatever real time passed in between
C4_FreezeResumeKeepsClock ==
    (clk_op = "resume" /\ ~clk.pause_mode_skip_ahead) =>
        clk.last_time = clk_at_pause

\* freeze mode: clock at 1, pause at 2, resume at 5 leaves the clock at 5
C4_Witness ==
    /\ clk_op = "resume" /\ ~clk.pause_mode_skip_ahead
    /\ clk_at_pause = 1 /\ clk_pause_instant = 2 /\ clk_now = 5
    /\ clk.last_time = 5

\* C5: in skip-ahead mode the virtual clock equals, right after
\* resume_animations(), its value at the pause plus the real time that passed
\* between pause_animations() and resume_animations()
C5_SkipAheadResumeAddsPause ==
    (clk_op = "resume" /\ clk.pause_mode_skip_ahead) =>
        clk.last_time = clk_at_pause + (clk_now - clk_pause_instant)

\* skip-ahead mode: clock at 1, pause at 2, resume at 5 leaves the clock at 5,
\* not at 1 + 3
C5_Witness ==
    /\ clk_op = "resume" /\ clk.pause_mode_skip_ahead
    /\ clk_at_pause = 1 /\ clk_pause_instant = 2 /\ clk_now = 5
    /\ clk.last_time = 5

\* C6: done is terminal: once the token is done, every later advance() and
\* update() returns the frame at index and leaves index, direction, next and
\* done unchanged
C6_DoneIsTerminal ==
    [][tok.done =>
          /\ tok'.done
          /\ tok'.index = tok.index
          /\ tok'.direction = tok.direction
          /\ tok'.next = tok.next
          /\ (tok_op' \in {"advance", "update"} =>
                  ~tok_raised' /\ tok_ret' = tok.index)]_vars

\* an update() call that found the token already done
C6_Witness ==
    /\ tok.done
    /\ tok_op = "update"
    /\ tok_steps = 0
    /\ tok_ret = FrameCount(tok) - 1

\* the position of a ping-pong token on its 0, 1, ..., N-1, N-2, ..., 1 cycle
PingPongPeriod(tk) == 2 * (FrameCount(tk) - 1)

PingPongPhase(tk) ==
    IF tk.direction = 1 THEN tk.index
    ELSE (PingPongPeriod(tk) - tk.index) % PingPongPeriod(tk)

\* the index at a position of the cycle
PingPongIndexAt(tk, phase) ==
    IF phase <= FrameCount(tk) - 1 THEN phase ELSE PingPongPeriod(tk) - phase

\* C7: a ping-pong token with N >= 2 frames moves 0, 1, ..., N-1, N-2, ..., 0
\* under successive advance() calls, the direction turning to -1 at index N-1
\* and to +1 at index 0, never wrapping; without loop it becomes done, at index
\* 0, the first time it is back at index 0 moving backward
C7_PingPongReverses ==
    [][(tok_op' = "advance" /\ tok.ping_pong /\ FrameCount(tok) >= 2 /\ ~tok.done) =>
          LET period == PingPongPeriod(tok)
              phase2 == PingPongPhase(tok) + 1
          IN  /\ ~tok_raised'
              /\ tok'.index = PingPongIndexAt(tok, phase2 % period)
              /\ tok'.direction =
                     (IF 1 <= phase2 /\ phase2 <= FrameCount(tok) - 1 THEN 1 ELSE -1)
              /\ tok'.done = (~tok.loop /\ phase2 = period)]_vars

\* a looping ping-pong token of 2 or more frames that advance() has brought
\* back to index 0, moving backward
C7_Witness ==
    /\ tok.ping_pong /\ tok.loop /\ FrameCount(tok) >= 2
    /\ tok_op = "advance"
    /\ tok.index = 0 /\ tok.direction = -1

\* C8: on a token without ping_pong that is not done, advance() moves index one
\* up; at the last frame it wraps to 0 with loop and otherwise sets done and
\* leaves index at N-1
C8_LinearAdvance ==
    [][(tok_op' = "advance" /\ ~tok.ping_pong /\ ~tok.done) =>
          LET n == FrameCount(tok)
          IN  /\ ~tok_raised'
              /\ tok'.done = (~tok.loop /\ tok.index = n - 1)
              /\ tok'.index = (IF tok.loop THEN (tok.index + 1) % n
                               ELSE Min2(tok.index + 1, n - 1))]_vars

\* a looping token of 2 or more frames, without ping_pong, that advance() has
\* wrapped: the call returned frame 0
C8_Witness ==
    /\ ~tok.ping_pong /\ tok.loop /\ FrameCount(tok) >= 2
    /\ tok_op = "advance"
    /\ tok.index = 0 /\ tok_ret = 0

\* C9: one update() call makes at most 4 x frame_count advance steps
C9_UpdateStepsWithinCap ==
    tok_op = "update" => tok_steps <= 4 * FrameCount(tok)

\* one frame of duration 2 played at speed 2: update(5) has made 5 advance
\* steps, the cap being 4
C9_Witness ==
    /\ tok_op = "update" /\ ~tok_raised
    /\ FrameCount(tok) = 1 /\ tok.frames[1].duration = 2
    /\ tok_steps = 5

\* the index of the k-th frame played, counting from 0
PlayedIndex(tk, k) ==
    IF FrameCount(tk) = 1 THEN 0
    ELSE IF tk.ping_pong
         THEN PingPongIndexAt(tk, k % PingPongPeriod(tk))
         ELSE k % FrameCount(tk)

\* the frame active at time t on the cumulative-duration timeline of a looping
\* token: the k-th frame played starts at time start
RECURSIVE TimelineIndex(_, _, _, _)
TimelineIndex(tk, t, k, start) ==
    LET i == PlayedIndex(tk, k)
        end == start + EffectiveDuration(tk.frames[i + 1], tk.speed_multiplier)
    IN  IF t < end THEN i ELSE TimelineIndex(tk, t, k + 1, end)

\* C10: update(current_time) on a looping token, the cap not hit: on return
\* next > current_time, and for a token driven by update() alone, at times
\* that never went back, since its construction at time 0, index is the frame
\* active at current_time on the token's cumulative-duration timeline
C10_UpdateReachesFrameAtTime ==
    (tok_op = "update" /\ tok.loop /\ tok_steps <= 4 * FrameCount(tok)) =>
        /\ ~tok_raised
        /\ tok.next > tok_arg
        /\ (tok_pure => tok.index = TimelineIndex(tok, tok_arg, 0, 0))

\* update() on a looping single-frame ping-pong token has raised IndexError
C10_Witness ==
    /\ tok_op = "update" /\ tok.loop /\ tok_raised
    /\ FrameCount(tok) = 1 /\ tok.ping_pong

\* the same statement for every looping token except the single-frame
\* ping-pong token of C3
C10_ExceptSingleFramePingPong ==
    (tok.ping_pong /\ FrameCount(tok) = 1) \/ C10_UpdateReachesFrameAtTime
\* the duration of a frame as played: duration / (speed_multiplier x
\* frame_speed_multiplier), the duration itself when that product is <= 0
ScaledDuration(duration, speed_multiplier, frame_speed_multiplier) ==
    IF speed_multiplier * frame_speed_multiplier <= 0 THEN duration
    ELSE duration \div (speed_multiplier * frame_speed_multiplier)

\* C11: next is computed at construction as initial_time (0 here) + the scaled
\* duration of frame 0 + a jitter in 0..random_jitter, and by advance(t), on a
\* token that is not done before or after the call, as t + the scaled duration
\* of the frame that has just become current
C11_NextIsBasePlusScaledDuration ==
    /\ tok_op = "new" =>
           \E jitter \in 0..tok_jitter :
               tok.next = 0 + ScaledDuration(tok.frames[1].duration,
                                             tok.speed_multiplier,
                                             tok.frames[1].frame_speed_multiplier)
                          + jitter
    /\ (tok_op = "advance" /\ ~tok_raised /\ ~tok.done) =>
           tok.next = tok_arg + ScaledDuration(FrameAt(tok, tok.index).duration,
                                               tok.speed_multiplier,
                                               FrameAt(tok, tok.index).frame_speed_multiplier)

\* advance() has rescheduled a token played at twice the speed onto a frame
\* whose own multiplier is 0: the duration 2 is used unscaled
C11_Witness ==
    /\ tok_op = "advance" /\ ~tok_raised /\ ~tok.done
    /\ tok.speed_multiplier = 2
    /\ FrameAt(tok, tok.index).frame_speed_multiplier = 0
    /\ tok.next = tok_arg + 2

\* C12: every process_animation_queue() call returns: the while loop over the
\* queue root ends after finitely many token advances, whatever the frame
\* durations are
C12_ProcessAlwaysReturns == aq_op = "process" => ~aq_hung

\* a process_animation_queue() call that advanced tokens, one of them onto a
\* frame of duration 0, and returned
C12_Witness ==
    /\ aq_op = "process" /\ ~aq_hung
    /\ \E i \in 1..Len(aq_log) :
           LET tk == aq_log[i].after.tokens[aq_log[i].token]
           IN  FrameAt(tk, tk.index).duration = 0

\* the tokens of the queue that a process_animation_queue() call popped,
\* advanced and pushed back
AdvancedTokens == {aq_log[i].token : i \in 1..Len(aq_log)}

\* C13: after reload_animations, process_animation_queue and
\* set_animation_speed_multiplier calls in any order the token at the root of
\* the queue has the smallest next of the queue, and the next of a token
\* changes only in a pass of process_animation_queue that popped it, before it
\* is pushed back
C13_RootIsSoonest ==
    /\ aq_op /= "idle" =>
           \A i \in 1..Len(aq.queue) :
               aq.tokens[aq.queue[1]].next <= aq.tokens[aq.queue[i]].next
    /\ aq_op \notin {"idle", "new"} =>
           \A t \in 1..Len(aq_before.tokens) :
               aq.tokens[t].next /= aq_before.tokens[t].next =>
                   aq_op = "process" /\ t \in AdvancedTokens
    /\ \A i \in 1..Len(aq_log) :
           \A t \in 1..Len(aq_log[i].before.tokens) :
               aq_log[i].after.tokens[t].next /= aq_log[i].before.tokens[t].next =>
                   t = aq_log[i].token

\* a pass of process_animation_queue() on a queue of two tokens has advanced
\* the root past the other token, which is the root after the pass and due
\* sooner
C13_Witness ==
    /\ aq_op = "process" /\ ~aq_hung
    /\ \E i \in 1..Len(aq_log) :
           LET rec == aq_log[i]
           IN  /\ Len(rec.after.queue) >= 2
               /\ rec.before.queue[1] = rec.token
               /\ rec.after.queue[1] /= rec.token
               /\ rec.after.tokens[rec.after.queue[1]].next
                      < rec.after.tokens[rec.token].next

\* the image the adapter holds for a cell: the substitution cached for it,
\* else the image of its gid, 0 for none
ShownImage(a, x, y, l) ==
    IF a.animated_tile[<<x, y, l>>] /= 0 THEN a.animated_tile[<<x, y, l>>]
    ELSE AQTileImage(x, y, l)

\* the redraw entries due for a tracked position on the buffer
ColumnEntries(a, position, image) ==
    {<<position[1], position[2], AQLayers[i],
       IF AQLayers[i] = position[3] THEN image
       ELSE ShownImage(a, position[1], position[2], AQLayers[i])>> :
        i \in {j \in 1..Len(AQLayers) :
                  \/ AQLayers[j] = position[3]
                  \/ ShownImage(a, position[1], position[2], AQLayers[j]) /= 0}}

\* C14: in every pass of process_animation_queue(tile_view) that advances a
\* token, each position the token tracks inside tile_view gets the new frame
\* image as its substitution and one redraw entry per visible layer that has an
\* image in that column (the new frame for its own layer, the image held for
\* the cell for the others); each tracked position outside tile_view leaves the
\* tracked set and gets no entry
C14_AdvanceRedrawsColumn ==
    aq_op = "process" =>
        \A i \in 1..Len(aq_log) :
            LET rec == aq_log[i]
            IN  \A position \in rec.before.positions[rec.token] :
                    IF Collidepoint(aq_arg, position[1], position[2])
                    THEN /\ rec.after.animated_tile[position] = rec.image
                         /\ position \in rec.after.positions[rec.token]
                         /\ {rec.emitted[position][k] : k \in 1..Len(rec.emitted[position])}
                                = ColumnEntries(rec.after, position, rec.image)
                         /\ Len(rec.emitted[position])
                                = Cardinality(ColumnEntries(rec.after, position, rec.image))
                    ELSE /\ position \notin rec.after.positions[rec.token]
                         /\ rec.emitted[position] = <<>>

\* a pass advanced the token of layer 0 onto its second frame with its cell
\* on the buffer: the column got an entry for layer 0 and one for layer 1,
\* none for the empty layer 2
C14_Witness ==
    /\ aq_op = "process" /\ ~aq_hung
    /\ \E i \in 1..Len(aq_log) :
           /\ <<0, 0, 0>> \in aq_log[i].before.positions[aq_log[i].token]
           /\ Collidepoint(aq_arg, 0, 0)
           /\ aq_log[i].image = 2
           /\ Len(aq_log[i].emitted[<<0, 0, 0>>]) = 2

\* the gids whose frames property get_animations() yields
AnimatedGids == {g \in AQGids : aq_anims[g] /= <<>>}

\* C15: after a reload_animations() that returned, the queue holds one token
\* per animated gid, each made by this reload: no token of an earlier load is
\* left in it
C15_ReloadRebuildsQueue ==
    (aq_op = "reload" /\ aq_raised = "") =>
        /\ Len(aq.queue) = Cardinality(AnimatedGids)
        /\ \A i \in 1..Len(aq.queue) : aq.queue[i] > Len(aq_before.tokens)
        /\ \A g \in AnimatedGids :
               \E i \in 1..Len(aq.queue) : aq.queue[i] = aq.animation_map[g]

\* the reload_animations() of the constructor on a map with two animated
\* gids: two tokens, both new
C15_Witness ==
    /\ aq_op = "reload" /\ aq_raised = ""
    /\ aq_before.tokens = <<>>
    /\ Cardinality(AnimatedGids) = 2
    /\ Len(aq.queue) = 2

\* the image of the frame a token is on
CurrentFrameImage(tk) == FrameAt(tk, tk.index).image

\* C16: for every token that animates a gid and every position it tracks, the
\* image the adapter holds for the position is the image of the token's
\* current frame, also when the position is first queried after the token has
\* left frame 0
C16_TrackedShowCurrentFrame ==
    aq_op \notin {"idle", "new"} =>
        \A g \in AQGids :
            aq.animation_map[g] /= 0 =>
                \A position \in aq.positions[aq.animation_map[g]] :
                    ShownImage(aq, position[1], position[2], position[3])
                        = CurrentFrameImage(aq.tokens[aq.animation_map[g]])

\* a token on its second frame and a position it tracks whose cached
\* substitution is the image of that frame
C16_Witness ==
    /\ aq_op = "process" /\ ~aq_hung
    /\ aq.animation_map[1] /= 0
    /\ aq.tokens[aq.animation_map[1]].index = 1
    /\ <<0, 0, 0>> \in aq.positions[aq.animation_map[1]]
    /\ aq.animated_tile[<<0, 0, 0>>] = CurrentFrameImage(aq.tokens[aq.animation_map[1]])

\* C17: reload_animations() returns without an exception whatever gids the
\* frames properties name: frames without an image are skipped, also when
\* every frame of an animation is skipped, and every other animated gid gets
\* its token
C17_ReloadCompletes ==
    aq_op = "reload" =>
        /\ aq_raised = ""
        /\ \A g \in AnimatedGids :
               LoadFrames(aq_anims[g], 1) /= <<>> => aq.animation_map[g] /= 0

\* a reload_animations() that skipped the first frame of gid 1, whose gid has
\* no image, and made the token from the second one
C17_Witness ==
    /\ aq_op = "reload" /\ aq_raised = ""
    /\ aq_anims[1] = << <<3, 2000>>, <<2, 2000>> >>
    /\ aq.animation_map[1] /= 0
    /\ Len(aq.tokens[aq.animation_map[1]].frames) = 1

\* C18: set_animation_speed_multiplier(m) with m <= 0 raises ValueError and
\* leaves the adapter as it was; with m > 0 it returns, every token of the
\* queue has speed_multiplier = m, and the queue order and the next and index
\* of every token are what they were
C18_SetSpeedMultiplier ==
    aq_op = "set_speed" =>
        IF aq_arg <= 0
        THEN aq_raised = "ValueError" /\ aq = aq_before
        ELSE /\ aq_raised = ""
             /\ aq.queue = aq_before.queue
             /\ \A i \in 1..Len(aq.queue) :
                    aq.tokens[aq.queue[i]].speed_multiplier = aq_arg
             /\ \A t \in 1..Len(aq_before.tokens) :
                    /\ aq.tokens[t].next = aq_before.tokens[t].next
                    /\ aq.tokens[t].index = aq_before.tokens[t].index

\* set_animation_speed_multiplier(2) on a queue of two tokens that played at
\* speed 1, one of them on its second frame, the other not
C18_Witness ==
    /\ aq_op = "set_speed" /\ aq_arg = 2
    /\ Len(aq.queue) = 2
    /\ \A i \in 1..2 : aq_before.tokens[aq.queue[i]].speed_multiplier = 1
    /\ \E i, j \in 1..2 :
           aq.tokens[aq.queue[i]].index = 1 /\ aq.tokens[aq.queue[j]].index = 0

\* the centre a center() call was asked for, rounded
RequestedCentre == <<PyRound(vp_coords[1]), PyRound(vp_coords[2])>>

\* (p - offset - half) mod tile = 0 on both axes
CentreAligned(px, py) ==
    /\ (px - vp.x_offset - vp.half_width) % BRTileW = 0
    /\ (py - vp.y_offset - vp.half_height) % BRTileH = 0

\* C19 as stated: after every center(p), p being the requested centre,
\* (p.x - x_offset - half_width) mod tile_width = 0 and
\* (p.y - y_offset - half_height) mod tile_height = 0, clamping on or off
C19_RequestedCentreAligned ==
    vp_op /= "idle" => CentreAligned(RequestedCentre[1], RequestedCentre[2])

\* C19: after every center(p) the two congruences hold for the centre the
\* camera has taken, view_rect.center, which is the requested centre when
\* clamping is off and when the requested view lies inside the map
C19_CameraCentreAligned ==
    vp_op /= "idle" =>
        /\ CentreAligned(RCenterX(vp.view_rect), RCenterY(vp.view_rect))
        /\ (\/ ~vp.clamp_camera
            \/ LET asked == SetCenter(vp.view_rect, RequestedCentre[1],
                                      RequestedCentre[2])
               IN  ClampIp(asked, vp.map_rect) = asked)
           => /\ RCenterX(vp.view_rect) = RequestedCentre[1]
              /\ RCenterY(vp.view_rect) = RequestedCentre[2]

\* center(p) with clamping on and p left of what the map allows: the camera
\* centre is not p, and p itself is not aligned
C19_Witness ==
    /\ vp_op = "center" /\ vp.clamp_camera
    /\ RequestedCentre[1] < RCenterX(vp.view_rect)
    /\ ~CentreAligned(RequestedCentre[1], RequestedCentre[2])
    /\ CentreAligned(RCenterX(vp.view_rect), RCenterY(vp.view_rect))

\* C20: after every BufferedRenderer.center(), clamping on or off, the tile
\* view origin in pixels plus the offsets is the origin of view_rect:
\* tile_view.left * tile_width + x_offset = view_rect.left and
\* tile_view.top * tile_height + y_offset = view_rect.top
C20_OffsetsAlignTileView ==
    br_path \notin {"idle", "new"} =>
        /\ br.tile_view.x * BRTileW + br.x_offset = br.view_rect.x
        /\ br.tile_view.y * BRTileH + br.y_offset = br.view_rect.y

\* center() with clamping off has put the camera left of the map: the tile
\* view is held at column 0 and the negative offset makes up the difference
C20_Witness ==
    /\ br_path \notin {"idle", "new"}
    /\ ~br.clamp_camera /\ ~br.anchored_view
    /\ br.tile_view.x = 0 /\ br.x_offset < 0
    /\ br.tile_view.x * BRTileW + br.x_offset = br.view_rect.x
    /\ br.tile_view.y * BRTileH + br.y_offset = br.view_rect.y

\* C21: with clamping on, center() on a map smaller than the view on an axis
\* never produces a tile_view origin outside [0, map_tiles - tile_view_size]
\* on that axis
C21_ClampedOriginInMapRange ==
    (vp_op \in {"center", "scroll"} /\ vp.clamp_camera) =>
        /\ vp.map_rect.w < vp.view_rect.w =>
               (0 <= vp_ret[1] /\ vp_ret[1] <= BRMapW - vp.tile_view.w)
        /\ vp.map_rect.h < vp.view_rect.h =>
               (0 <= vp_ret[2] /\ vp_ret[2] <= BRMapH - vp.tile_view.h)

\* center() with clamping on and a view wider than the map: the view is
\* centred over the map and the origin computed is a negative column
C21_Witness ==
    /\ vp_op = "center" /\ vp.clamp_camera
    /\ vp.map_rect.w < vp.view_rect.w
    /\ vp.view_rect.x < 0
    /\ vp_ret[1] < 0

\* C22: ViewPort.center() and scroll() return (left, top, dx, dy,
\* view_change) with (dx, dy) the difference between this call's (left, top)
\* and the (left, top) of the center() or scroll() call before it, and
\* view_change = max(|dx|, |dy|)
C22_DeltasSincePreviousCall ==
    [][(vp_op \in {"center", "scroll"} /\ vp_op' \in {"center", "scroll"}) =>
           /\ vp_ret'[3] = vp_ret'[1] - vp_ret[1]
           /\ vp_ret'[4] = vp_ret'[2] - vp_ret[2]
           /\ vp_ret'[5] = Max2(Abs(vp_ret'[3]), Abs(vp_ret'[4]))]_vars

\* center() has returned a column right of the origin, and the dx it returns
\* is that column itself: the difference to the tile_view set_size() left
C22_Witness ==
    /\ vp_op = "center"
    /\ vp_ret[1] > 0
    /\ vp_ret[3] = vp_ret[1] - vp.tile_view.x
    /\ vp_ret[5] = Max2(Abs(vp_ret[3]), Abs(vp_ret[4]))

\* the rectangle inner lies entirely inside outer
RectInside(inner, outer) ==
    /\ RLeft(outer) <= RLeft(inner) /\ RRight(inner) <= RRight(outer)
    /\ RTop(outer) <= RTop(inner) /\ RBottom(inner) <= RBottom(outer)

\* C23: whenever the view is anchored after center(), clamping on or off,
\* view_rect lies entirely inside map_rect; a view that extends past the map
\* is never reported as anchored
C23_AnchoredViewInsideMap ==
    (vp_op \in {"center", "scroll"} /\ vp.anchored_view) =>
        RectInside(vp.view_rect, vp.map_rect)

\* center() with clamping on and a view larger than the map: the view
\* reaches past the map on every side and is reported as anchored
C23_Witness ==
    /\ vp_op = "center" /\ vp.clamp_camera /\ vp.anchored_view
    /\ vp.view_rect.x < 0 /\ RRight(vp.view_rect) > RRight(vp.map_rect)
    /\ vp.view_rect.y < 0 /\ RBottom(vp.view_rect) > RBottom(vp.map_rect)

\* C24: after set_size() and any sequence of center() and scroll() calls,
\* whenever the view is anchored, 0 <= x_offset < tile_width,
\* 0 <= y_offset < tile_height, x_offset + view width <= tile_view.width *
\* tile_width and y_offset + view height <= tile_view.height * tile_height
C24_AnchoredWindowInsideBuffer ==
    (vp_op /= "idle" /\ vp.anchored_view) =>
        /\ 0 <= vp.x_offset /\ vp.x_offset < BRTileW
        /\ 0 <= vp.y_offset /\ vp.y_offset < BRTileH
        /\ vp.x_offset + vp.view_rect.w <= vp.tile_view.w * BRTileW
        /\ vp.y_offset + vp.view_rect.h <= vp.tile_view.h * BRTileH

\* an anchored view of a whole number of tiles, one pixel into its first
\* column and row: the window ends inside the margin column and row
C24_Witness ==
    /\ vp_op \in {"center", "scroll"} /\ vp.anchored_view
    /\ vp.view_rect.w % BRTileW = 0 /\ vp.x_offset = BRTileW - 1
    /\ vp.y_offset = BRTileH - 1
    /\ vp.x_offset + vp.view_rect.w > (vp.tile_view.w - 1) * BRTileW
    /\ vp.y_offset + vp.view_rect.h > (vp.tile_view.h - 1) * BRTileH

\* C26: zoom > 0 in every state: a ViewPort is constructed with a zoom > 0 or
\* its construction raises ValueError, and assigning a zoom <= 0 raises
\* ValueError and leaves zoom, view_rect, tile_view and the offsets unchanged
C26_ZoomStaysPositive ==
    /\ [](vp_op /= "idle" =>
             /\ vp_raised \in {"none", "ValueError"}
             /\ VPConstructed => vp.zoom_level[1] > 0)
    /\ [][(vp_op' = "zoom" /\ vp_raised' /= "none") => vp' = vp]_vars

\* a ViewPort constructed with a negative zoom: no error was raised and the
\* view has a negative size
C26_Witness ==
    /\ vp_op = "new" /\ vp_raised = "none"
    /\ vp.zoom_level[1] < 0
    /\ vp.view_rect.w < 0 /\ vp.tile_view.w < 0

\* what center(view_rect.center) makes of the renderer as it is
Recentred ==
    Center(br, br_buffer, 2 * RCenterX(br.view_rect), 2 * RCenterY(br.view_rect)).r

\* C25: after set_size() or a zoom change, the tile_view origin, the offsets
\* and the buffer content are those center(view_rect.center) yields for the
\* new size: they match the camera position and are not reset to the origin
\* of the map
C25_ResizeKeepsCameraPosition ==
    br_path \in {"set_size", "zoom"} =>
        /\ br.tile_view = Recentred.tile_view
        /\ br.x_offset = Recentred.x_offset
        /\ br.y_offset = Recentred.y_offset
        /\ br_buffer = RedrawTiles(Recentred.tile_view)

\* set_size() on a camera that had moved into the map: view_rect is still
\* there, tile_view is back at the origin with offsets of 0 and the buffer
\* shows the tiles of the origin
C25_Witness ==
    /\ br_path = "set_size"
    /\ br.view_rect.x >= BRTileW /\ br.view_rect.y >= BRTileH
    /\ RectInside(br.view_rect, br.map_rect)
    /\ br.tile_view.x = 0 /\ br.tile_view.y = 0
    /\ br.x_offset = 0 /\ br.y_offset = 0
    /\ br_buffer = RedrawTiles(br.tile_view)
    /\ Recentred.tile_view.x > 0 /\ Recentred.tile_view.y > 0

\* the tile origin center() computes on one axis for a view that starts at
\* the pixel pos
ComputedOrigin(pos, view_tiles, map_tiles, tile, clamp_camera) ==
    LET origin == pos \div tile
    IN  IF clamp_camera THEN origin
        ELSE IF map_tiles < view_tiles \/ origin < 0 THEN 0
        ELSE IF origin + view_tiles > map_tiles THEN map_tiles - view_tiles
        ELSE origin

\* the buffer cells of the strips a move by (dx, dy) tiles exposes
InEdgeStrip(c, tile_view, dx, dy) ==
    \/ dx > 0 /\ c[1] >= tile_view.w - dx
    \/ dx < 0 /\ c[1] < 0 - dx
    \/ dy > 0 /\ c[2] >= tile_view.h - dy
    \/ dy < 0 /\ c[2] < 0 - dy

\* C27: in BufferedRenderer.center(), with view_change the larger of the
\* column and row distance the tile_view moves: when view_change = 0 neither
\* the buffer nor tile_view changes; when 1 <= view_change <= redraw_cutoff
\* the buffer is scrolled and only the cells of the edge strips are drawn
\* anew, every other cell holding what the cell (dx, dy) away held; when
\* view_change > redraw_cutoff the buffer is that of a full redraw_tiles();
\* in every case the origin of tile_view is the (left, top) computed
C27_ViewChangePaths ==
    [][LET dx == br'.tile_view.x - br.tile_view.x
           dy == br'.tile_view.y - br.tile_view.y
           view_change == Max2(Abs(dx), Abs(dy))
       IN  /\ br'.tile_view.x =
                  ComputedOrigin(br'.view_rect.x, br.tile_view.w, BRMapW,
                                 BRTileW, br.clamp_camera)
           /\ br'.tile_view.y =
                  ComputedOrigin(br'.view_rect.y, br.tile_view.h, BRMapH,
                                 BRTileH, br.clamp_camera)
           /\ view_change = 0 =>
                  br_path' = "none" /\ br_buffer' = br_buffer
           /\ (1 <= view_change /\ view_change <= BRRedrawCutoff) =>
                  /\ br_path' = "scroll"
                  /\ \A c \in BufferCells(br.tile_view) :
                         IF InEdgeStrip(c, br.tile_view, dx, dy)
                         THEN \A i \in 1..Len(br_buffer'[c]) :
                                  /\ br_buffer'[c][i][1] = c[1] + br'.tile_view.x
                                  /\ br_buffer'[c][i][2] = c[2] + br'.tile_view.y
                         ELSE br_buffer'[c] = br_buffer[<<c[1] + dx, c[2] + dy>>]
           /\ view_change > BRRedrawCutoff =>
                  /\ br_path' = "redraw"
                  /\ br_buffer' = RedrawTiles(br'.tile_view)]_vars

\* center() has moved the tile_view by one column and one row: the buffer
\* was scrolled, its first cell holds what the cell diagonally below it held
C27_Witness ==
    /\ br_path = "scroll"
    /\ br.tile_view.x = 1 /\ br.tile_view.y = 1
    /\ br.tile_view.x =
           ComputedOrigin(br.view_rect.x, br.tile_view.w, BRMapW, BRTileW,
                          br.clamp_camera)
    /\ br_buffer[<<0, 0>>] = FlushCell(<<>>, 1, 1, <<br.tile_view>>, 1)

\* the map cells of a tile_view
ViewCells(v) ==
    {<<x, y>> : x \in v.x..(v.x + v.w - 1), y \in v.y..(v.y + v.h - 1)}

\* the cells of tile_view v that a move by (dx, dy) has newly exposed: those
\* the tile_view did not hold before the move
NewlyExposed(v, dx, dy) ==
    ViewCells(v) \ ViewCells(Rect(v.x - dx, v.y - dy, v.w, v.h))

\* the tiles of the cells in cells, as queued: (x, y, layer, image)
TilesOfCells(cells) ==
    {<<p[1][1], p[1][2], p[2], GetTileImage(p[1][1], p[1][2], p[2])>> :
        p \in {q \in cells \X {BRLayers[i] : i \in 1..Len(BRLayers)} :
                  GetTileImage(q[1][1], q[1][2], q[2]) /= <<>>}}

\* the queue holds exactly the tiles of the cells in cells, and exactly those
\* cells of the buffer were cleared
EdgeQueuedAndCleared(cells) ==
    /\ {tr_queue[i] : i \in 1..Len(tr_queue)} = TilesOfCells(cells)
    /\ \A c \in BufferCells(tr.tile_view) :
           tr_buffer[c] =
               IF <<c[1] + tr.tile_view.x, c[2] + tr.tile_view.y>> \in cells
               THEN FilledPixel(ClearRegionColor(tr))
               ELSE tr_before[c]

\* C28: queue_edge_tiles(tile_view, dx, dy), tile_view already moved by
\* (dx, dy), queues exactly the tiles of the cells of tile_view that the move
\* newly exposed and clears exactly those cells of the buffer, for every dx
\* and dy; with dx = dy = 0 it queues and clears nothing
C28_EdgeTilesAreNewlyExposed ==
    tr_op = "queue_edge_tiles" =>
        EdgeQueuedAndCleared(NewlyExposed(tr.tile_view, tr_arg[1], tr_arg[2]))

\* queue_edge_tiles with dx = 2 on a tile_view inside the map: of the two
\* columns the move exposed, the tiles of the last one alone are queued and
\* the last column alone is cleared
C28_Witness ==
    /\ tr_op = "queue_edge_tiles" /\ tr_arg = <<2, 0>>
    /\ tr.tile_view = Rect(2, 1, 3, 3)
    /\ EdgeQueuedAndCleared({<<4, y>> : y \in 1..3})
    /\ NewlyExposed(tr.tile_view, 2, 0) = {<<x, y>> : x \in 3..4, y \in 1..3}

\* every tile of map cell (x, y), from visible layer i on, drawn over pixel
RECURSIVE TilesDrawnOver(_, _, _, _)
TilesDrawnOver(pixel, x, y, i) ==
    IF i > Len(BRLayers) THEN pixel
    ELSE LET tile == GetTileImage(x, y, BRLayers[i])
         IN  TilesDrawnOver(IF tile = <<>> THEN pixel ELSE BlitPixel(pixel, tile),
                            x, y, i + 1)

\* C29: after a full redraw every cell of the buffer holds the tiles of its
\* map cell, (x - tile_view.left, y - tile_view.top) being the cell of map
\* cell (x, y), for every visible layer, drawn over the configured clear
\* colour, or over the pixels the buffer held before when no clear colour
\* is configured
C29_FullRedrawClearsThenDraws ==
    tr_op \in {"redraw_tiles", "redraw_all"} =>
        \A c \in BufferCells(tr.tile_view) :
            tr_buffer[c] =
                TilesDrawnOver(IF tr.clear_color = "none" THEN tr_before[c]
                               ELSE FilledPixel(tr.clear_color),
                               c[1] + tr.tile_view.x, c[2] + tr.tile_view.y, 1)

\* redraw_tiles() with no clear colour configured, on a buffer whose cell
\* (0, 0) has no opaque tile: the pixels it held are gone, filled with black
C29_Witness ==
    /\ tr_op = "redraw_tiles" /\ tr.clear_color = "none"
    /\ tr.tile_view = Rect(0, 0, 3, 3)
    /\ tr_before[<<0, 0>>] = StalePixel
    /\ tr_buffer[<<0, 0>>] = [fill |-> "rgb_clear", images |-> <<<<0, 0, 1>>>>]
    /\ tr_buffer[<<1, 0>>] = [fill |-> "covered", images |-> <<<<1, 0, 0>>>>]

\* in a sequence of blit_ops, every tile at a layer <= L stands before a
\* renderable at layer L that it overlaps when overlapping is asked for, and
\* every tile at a layer > L after it
TilesAroundRenderables(ops, overlapping) ==
    \A i, j \in 1..Len(ops) :
        (/\ ops[i][2] = 0 /\ ops[j][2] = 1
         /\ overlapping =>
                Colliderect(Rect(ops[i][3], ops[i][4], BRTileW, BRTileH),
                            Rect(ops[j][3], ops[j][4],
                                 ds.surfaces[ops[j][5] + 1].rect.w,
                                 ds.surfaces[ops[j][5] + 1].rect.h)))
        => IF ops[i][1] <= ops[j][1] THEN i < j ELSE i > j

\* C30: in the sorted draw list every re-drawn tile at a layer <= L comes
\* before a renderable at layer L and every re-drawn tile at a layer > L
\* after it, and the pass paints in that order: a renderable is painted after
\* the tiles of its own and lower layers that it overlaps, and before those
\* of higher layers
C30_TilesSortAroundSprites ==
    ds_op \in {"_draw_surfaces", "render_sprites"} =>
        /\ TilesAroundRenderables(ds_list, FALSE)
        /\ TilesAroundRenderables(ds_paint, TRUE)

\* render_sprites with one renderable that has a blend mode, on layer 1 over
\* a cell with a tile on layer 1: the tile sorts before the renderable and
\* is painted after it
C30_Witness ==
    /\ ds_op = "render_sprites"
    /\ ds.tile_view = Rect(0, 0, 3, 3) /\ ds.offset = <<0, 0>>
    /\ ds.surfaces = <<[rect |-> Rect(0, 0, 2, 2), layer |-> 1,
                        blendmode |-> "BLEND_ADD"]>>
    /\ ds_list = <<<<1, 0, 0, 0, 1, <<0, 0, 1>>, "none">>,
                   <<1, 1, 0, 0, 0, <<"surface", 1>>, "BLEND_ADD">>>>
    /\ ds_paint = <<ds_list[2], ds_list[1]>>

\* the buffer cells the rectangle of a renderable overlaps, the rectangle
\* taken in buffer pixels
CellsUnder(renderable) ==
    {c \in BufferCells(ds.tile_view) :
        Colliderect(Rect(c[1] * BRTileW, c[2] * BRTileH, BRTileW, BRTileH),
                    Rect(renderable.rect.x + ds.offset[1],
                         renderable.rect.y + ds.offset[2],
                         renderable.rect.w, renderable.rect.h))}

\* the tiles of every visible layer at buffer cell c
TilesAtCell(c) ==
    {GetTileImage(c[1] + ds.tile_view.x, c[2] + ds.tile_view.y, BRLayers[i]) :
        i \in 1..Len(BRLayers)} \ {<<>>}

\* a renderable at a layer not above the top tile layer, over cell c, with a
\* tile at c on its own or a higher layer
ColumnIsOver(renderable, c) ==
    /\ renderable.layer <= BRLayers[Len(BRLayers)]
    /\ c \in CellsUnder(renderable)
    /\ \E tile \in TilesAtCell(c) : renderable.layer <= tile[3]

\* the tiles the draw list holds for buffer cell c
TilesListedAt(c) ==
    {ds_list[i][6] :
        i \in {j \in 1..Len(ds_list) :
                  /\ ds_list[j][2] = 0
                  /\ ds_list[j][3] = c[1] * BRTileW - ds.offset[1]
                  /\ ds_list[j][4] = c[2] * BRTileH - ds.offset[2]}}

C32_PaintedInSortedOrder ==
    ds_op \in {"_draw_surfaces", "render_sprites"} => ds_paint = ds_list

\* render_sprites with a plain renderable on layer 0 and one with a blend
\* mode on layer 2: the one on layer 2 sorts last and is painted first
C32_Witness ==
    /\ ds_op = "render_sprites"
    /\ ds.tile_view = Rect(0, 0, 3, 3) /\ ds.offset = <<0, 0>>
    /\ ds.surfaces = <<[rect |-> Rect(0, 0, 2, 2), layer |-> 0, blendmode |-> "none"],
                       [rect |-> Rect(0, 0, 2, 2), layer |-> 2,
                        blendmode |-> "BLEND_ADD"]>>
    /\ Len(ds_list) = 3
    /\ ds_list[1][5] = 0 /\ ds_list[2][2] = 0 /\ ds_list[3][5] = 1
    /\ ds_paint = <<ds_list[3], ds_list[1], ds_list[2]>>

\* (max right, max bottom) over the registered maps, (0, 0) when there is none
AggregateSize(maps) ==
    IF maps = <<>> THEN <<0, 0>>
    ELSE <<SetMax({maps[i].rect.x + maps[i].rect.w : i \in 1..Len(maps)}),
           SetMax({maps[i].rect.y + maps[i].rect.h : i \in 1..Len(maps)})>>

\* C33: with normalization enabled, after any sequence of add_map and
\* remove_map calls every registered map rectangle has left >= 0 and
\* top >= 0, and map_size is (max right, max bottom) over the registered
\* maps, (0, 0) when none is registered
C33_NormalizedMapsAndSize ==
    (ma_op \in {"new", "add_map", "remove_map"} /\ ma.normalize) =>
        /\ \A i \in 1..Len(ma.maps) :
               ma.maps[i].rect.x >= 0 /\ ma.maps[i].rect.y >= 0
        /\ ma.map_size = AggregateSize(ma.maps)

\* a 5x5 map added at (-2, -2) and a 5x5 map added at (5, 0), the first then
\* removed: the second stays at (5, 0) and map_size stays (10, 5)
C33_Witness ==
    /\ ma.normalize /\ ma_op = "remove_map" /\ ma_raised = "none"
    /\ ma_arg = <<"data1">>
    /\ ma.maps = <<[data |-> "data2", rect |-> Rect(5, 0, 5, 5), layer |-> 0]>>
    /\ ma.map_size = <<10, 5>>

\* C34: add_map with a tile size different from the aggregator's, and
\* remove_map of a map that is not registered, each raise ValueError and
\* leave the registered maps, their offsets and map_size as they were
C34_RejectedCallsChangeNothing ==
    [][((\/ /\ ma_op' = "add_map"
            /\ MAData[ma_arg'[1]].tile_size /= ma.tile_size
         \/ /\ ma_op' = "remove_map"
            /\ \A i \in 1..Len(ma.maps) : ma.maps[i].data /= ma_arg'[1])
        => (/\ ma_raised' = "ValueError"
            /\ ma'.maps = ma.maps
            /\ ma'.map_size = ma.map_size))
       /\ (ma_raised' = "ValueError" => ma' = ma)]_vars

\* add_map of the 32x32 map refused on an aggregator that holds one map
C34_Witness ==
    /\ ma_op = "add_map" /\ ma_raised = "ValueError"
    /\ ma_arg = <<"data3", <<5, 0>>>>
    /\ ma.maps = <<[data |-> "data1", rect |-> Rect(0, 0, 5, 5), layer |-> 0]>>
    /\ ma.map_size = <<5, 5>>

\* C35: iterating a FastQuadTree yields every inserted item exactly once, for
\* any item set and any depth, so the number of iterated items is the number
\* of inserted items
C35_IterYieldsEachItemOnce ==
    DOMAIN qt_iter = qt_items => \A item \in qt_items : qt_iter[item] = 1

\* a tree of depth 1 over a wide item above the centre line and an item below
\* it: the wide item is stored in the nw and the ne child and iterated twice
C35_Witness ==
    /\ qt_items = {Rect(-2, -2, 2, 1), Rect(-2, 0, 1, 2)}
    /\ qt_depth = 1
    /\ DOMAIN qt_iter = qt_items
    /\ qt_iter[Rect(-2, -2, 2, 1)] = 2
    /\ qt_iter[Rect(-2, 0, 1, 2)] = 1

\* the rectangle from corner (x1, y1) to corner (x2, y2)
Corners(x1, y1, x2, y2) == Rect(x1, y1, x2 - x1, y2 - y1)

\* below node, every child's boundary is the quadrant of its parent's
\* boundary that the child stands for, and lies inside the parent's boundary
RECURSIVE ChildrenAreQuadrants(_)
ChildrenAreQuadrants(node) ==
    LET b == node.boundary
        Is(child, quadrant) ==
            child /= <<>> =>
                /\ child[1].boundary = quadrant
                /\ RectInside(child[1].boundary, b)
                /\ ChildrenAreQuadrants(child[1])
    IN  /\ Is(node.nw, Corners(RLeft(b), RTop(b), node.cx, node.cy))
        /\ Is(node.ne, Corners(node.cx, RTop(b), RRight(b), node.cy))
        /\ Is(node.se, Corners(node.cx, node.cy, RRight(b), RBottom(b)))
        /\ Is(node.sw, Corners(RLeft(b), node.cy, node.cx, RBottom(b)))

\* C39: every child node's boundary is the corresponding quadrant of its
\* parent's boundary, from (left, top) to (cx, cy) for nw, from (cx, top) to
\* (right, cy) for ne, and so on, hence contained in the parent's boundary,
\* wherever the root boundary lies
C39_ChildBoundaryIsQuadrant ==
    qt_tree /= <<>> => ChildrenAreQuadrants(qt_tree)

\* a tree of depth 1 whose boundary starts at (-2, -2) and has its centre at
\* (0, 0): the nw child has the empty boundary Rect(-2, -2, 0, 0) where the
\* quadrant is Rect(-2, -2, 2, 2)
C39_Witness ==
    /\ qt_items = {Rect(-2, -2, 1, 1), Rect(0, 0, 2, 2)}
    /\ qt_depth = 1
    /\ qt_tree.boundary = Rect(-2, -2, 4, 4)
    /\ qt_tree.items = {Rect(0, 0, 2, 2)}
    /\ qt_tree.nw /= <<>> /\ qt_tree.nw[1].boundary = Rect(-2, -2, 0, 0)
    /\ Corners(-2, -2, qt_tree.cx, qt_tree.cy) = Rect(-2, -2, 2, 2)

\* C36: constructing an AnimationToken with an empty frame sequence, or with
\* speed_multiplier <= 0, raises ValueError and creates no token
C36_ConstructorRejectsBadArguments ==
    (tn_op = "new" /\ (Len(tn.frames) = 0 \/ tn.speed_multiplier <= 0)) =>
        tn_raised = "ValueError" /\ tn_tok = <<>>

\* AnimationToken(positions, frames, speed_multiplier=0) with two frames
C36_Witness ==
    /\ tn_op = "new" /\ Len(tn.frames) = 2 /\ tn.speed_multiplier = 0
    /\ tn_raised = "ValueError" /\ tn_tok = <<>>

\* the token of the animation that position belongs to, in adapter a
TokenOfPosition(a, position) ==
    a.animation_map[AQTileGid(position[1], position[2], position[3])]

\* C37: a position of an animated gid that process_animation_queue has just
\* evicted from its token's tracked set, the tile view having moved off it,
\* is tracked again once it is queried through get_tile_image
C37_EvictedPositionTrackedAgain ==
    [][(/\ aq_op = "process" /\ aq_op' = "get_tile_image"
        /\ TokenOfPosition(aq, aq_arg') /= 0
        /\ aq_arg' \in aq_before.positions[TokenOfPosition(aq, aq_arg')]
        /\ aq_arg' \notin aq.positions[TokenOfPosition(aq, aq_arg')])
       => aq_arg' \in aq'.positions[TokenOfPosition(aq, aq_arg')]]_vars

\* one animation, its cell (0, 0, 0) evicted before: get_tile_image(0, 0, 0)
\* returns the image cached for the cell and the token tracks no position
C37_Witness ==
    /\ aq_op = "get_tile_image" /\ aq_arg = <<0, 0, 0>>
    /\ Len(aq.tokens) = 1 /\ TokenOfPosition(aq, aq_arg) = 1
    /\ aq_before.animated_tile[aq_arg] /= 0
    /\ aq_before.positions[1] = {}
    /\ aq.positions[1] = {}
    /\ aq_ret = aq_before.animated_tile[aq_arg]

\* C38: with clamping on and a map at least as large as the view on both
\* axes, after every center() and scroll() call view_rect lies inside
\* map_rect and the tile origin returned is >= 0 on both axes, and the
\* centre the camera has taken is the requested one whenever the requested
\* view already lies inside the map
C38_ClampedViewInsideMap ==
    (/\ vp_op \in {"center", "scroll"} /\ vp.clamp_camera
     /\ vp.map_rect.w >= vp.view_rect.w /\ vp.map_rect.h >= vp.view_rect.h) =>
        /\ RectInside(vp.view_rect, vp.map_rect)
        /\ vp_ret[1] >= 0 /\ vp_ret[2] >= 0
        /\ LET asked == SetCenter(vp.view_rect, RequestedCentre[1],
                                  RequestedCentre[2])
           IN  RectInside(asked, vp.map_rect) =>
                   /\ RCenterX(vp.view_rect) = RequestedCentre[1]
                   /\ RCenterY(vp.view_rect) = RequestedCentre[2]

\* center() with clamping on, a view smaller than the map and a requested
\* centre past the right and bottom edges: the view is brought back to end
\* at the edges of the map and the origin is a column and a row of the map
C38_Witness ==
    /\ vp_op = "center" /\ vp.clamp_camera
    /\ vp.map_rect.w > vp.view_rect.w /\ vp.map_rect.h > vp.view_rect.h
    /\ RequestedCentre[1] > RCenterX(vp.view_rect)
    /\ RequestedCentre[2] > RCenterY(vp.view_rect)
    /\ RRight(vp.view_rect) = RRight(vp.map_rect)
    /\ RBottom(vp.view_rect) = RBottom(vp.map_rect)
    /\ vp_ret[1] > 0 /\ vp_ret[2] > 0

\* C40: get_tile_images_by_rect(view) yields only tiles whose (x, y) lies in
\* the view, view.left <= x < view.right and view.top <= y < view.bottom,
\* and on the map, each at most once per layer, for every view, those that
\* lie partly or wholly at negative tile coordinates included
C40_TilesYieldedLieInView ==
    tb_op = "get_tile_images_by_rect" =>
        /\ \A i \in 1..Len(tb_tiles) :
               /\ RLeft(tb_view) <= tb_tiles[i][1]
               /\ tb_tiles[i][1] < RRight(tb_view)
               /\ RTop(tb_view) <= tb_tiles[i][2]
               /\ tb_tiles[i][2] < RBottom(tb_view)
               /\ tb_tiles[i][3] + 1 \in 1..Len(TBLayerData)
               /\ tb_tiles[i][2] + 1 \in 1..Len(TBLayerData[tb_tiles[i][3] + 1])
               /\ tb_tiles[i][1] + 1
                      \in 1..Len(TBLayerData[tb_tiles[i][3] + 1][tb_tiles[i][2] + 1])
        /\ \A i, j \in 1..Len(tb_tiles) :
               (/\ tb_tiles[i][1] = tb_tiles[j][1]
                /\ tb_tiles[i][2] = tb_tiles[j][2]
                /\ tb_tiles[i][3] = tb_tiles[j][3]) => i = j

\* a view of columns -3 and -2, left of the map: the row slice is
\* row[0:-1] and the tiles of columns 0 and 1 of row 0 are yielded
C40_Witness ==
    /\ tb_op = "get_tile_images_by_rect"
    /\ tb_view = Rect(-3, 0, 2, 1)
    /\ tb_tiles = <<<<0, 0, 0, 1>>, <<1, 0, 0, 2>>, <<1, 0, 1, 1>>>>

====
